---- MODULE Spec2Model ----
(***************************************************************************)
(* A model of diesel_duckdb: the DuckDB backend adapter for diesel.        *)
(*                                                                         *)
(*   query_builder.rs    DuckDBQueryBuilder   (SQL text assembly)          *)
(*   bind_collector.rs   DuckDbBindCollector  (positional bound values)    *)
(*   query_fragments.rs  LIMIT/OFFSET clauses (static and boxed)           *)
(*   connection.rs       DuckDbConnection, DuckDbCursor, DuckDbRow,        *)
(*                       DuckDbField                                       *)
(*   error.rs            map_diesel_error                                  *)
(*   types.rs            the ToSql / FromSql codecs                        *)
(*                                                                         *)
(* SQL text is a sequence of one-character strings.  A native value        *)
(* (duckdb::types::Value) is a record [t |-> tag, v |-> payload].          *)
(***************************************************************************)
EXTENDS Integers, Sequences, FiniteSets, TLC

VARIABLES
    sql,        \* DuckDBQueryBuilder.sql
    frags,      \* history: the fragments the statement's walk_ast visited,
                \* each with the span of sql its render call wrote
    binds,      \* DuckDbBindCollector.binds
    bpos,       \* how many fragments the bind pass has walked
    params,     \* the ParamsFromIter handed out by into_params
    status,     \* position of the statement's passes
    clause,     \* a LimitOffsetClause<L, O> under construction
    boxed,      \* the BoxedLimitOffsetClause made from it by into_boxed
    rendered,   \* what walking the static and the boxed clause produced
    statement_cache,  \* DuckDbConnection.statement_cache
    engine_log,       \* history: the engine calls of the last call on the connection
    result,           \* what the last call on the connection returned
    last_call,        \* history: the last call, its statement and its environment
    cursor,           \* the DuckDbCursor the caller holds, if any
    yielded,          \* history: what next() returned on that cursor, in order
    last_field,       \* the last Row::get on the last row and what its field reports
    transaction_state,  \* DuckDbConnection.transaction_state: the depth of
                        \* open transactions the transaction manager keeps
    input,            \* the argument a function of error.rs or types.rs is called with
    output            \* what it returned, once it was called

buildVars == <<sql, frags, binds, bpos, params, status>>
clauseVars == <<clause, boxed, rendered>>
connVars == <<statement_cache, engine_log, result, last_call, cursor, yielded, last_field,
              transaction_state>>
fnVars == <<input, output>>
vars == <<buildVars, clauseVars, connVars, fnVars>>

(***************************************************************************)
(* Bounds of the model.                                                    *)
(***************************************************************************)
MaxNameLen == 2     \* longest identifier name enumerated
MaxIdents == 2      \* identifiers pushed into one builder
MaxFrags == 3       \* fragments of one statement
MaxLimit == 3       \* largest LIMIT / OFFSET operand
MaxRows == 2        \* rows of a result set
MaxNone == 2        \* calls of next() after the cursor is exhausted
MaxStmts == 2     \* statements of a batch text
MaxWords == 3       \* words of an engine message

Min(a, b) == IF a < b THEN a ELSE b

(***************************************************************************)
(* Characters and strings.                                                 *)
(***************************************************************************)
DQ == "\""

NameAlphabet == {"a", " ", DQ}

RECURSIVE StringsUpTo(_, _)
StringsUpTo(alphabet, n) ==
    IF n = 0 THEN {<<>>}
    ELSE LET shorter == StringsUpTo(alphabet, n - 1)
         IN  shorter \cup {Append(s, c) : s \in shorter, c \in alphabet}

Names == StringsUpTo(NameAlphabet, MaxNameLen)

(***************************************************************************)
(* query_builder.rs                                                        *)
(***************************************************************************)
\* DuckDBQueryBuilder::new
new_query_builder == <<>>

\* QueryBuilder::push_sql: self.sql.push_str(sql)
push_sql(s, text) == s \o text

\* str::replace('"', "\"\""): every double quote becomes two
RECURSIVE replace_quotes(_)
replace_quotes(name) ==
    IF name = <<>> THEN <<>>
    ELSE (IF Head(name) = DQ THEN <<DQ, DQ>> ELSE <<Head(name)>>)
         \o replace_quotes(Tail(name))

\* a quoting that forgets to double the embedded quotes
push_identifier_raw(s, identifier) == (s \o <<DQ>>) \o identifier \o <<DQ>>

\* QueryBuilder::push_identifier: push('"'); push_str(replaced); push('"'); Ok(())
push_identifier(s, identifier) ==
    (s \o <<DQ>>) \o replace_quotes(identifier) \o <<DQ>>

\* the QueryResult of push_identifier: always Ok(())
push_identifier_result(identifier) == "Ok"

\* a placeholder writer that writes two tokens per call
push_bind_param_twice(s) == s \o <<"?", "?">>

\* QueryBuilder::push_bind_param: self.sql.push('?')
push_bind_param(s) == Append(s, "?")

\* QueryBuilder::finish: self.sql
finish(s) == s

(***************************************************************************)
(* Native values (duckdb::types::Value), as far as the adapter looks at    *)
(* them: the Null variant against every other variant.                     *)
(***************************************************************************)
NullValue == [t |-> "Null", v |-> 0]
IntValue(n) == [t |-> "Int", v |-> n]
TextValue(n) == [t |-> "Text", v |-> n]

\* The caller's ToSql conversion, by what it does to the Output buffer and
\* what it returns: write is the value it set (Unset: it set none), ret is
\* IsNull::No, IsNull::Yes or an error.
Unset == [t |-> "Unset", v |-> 0]
Conv(ret, write) == [ret |-> ret, write |-> write]
NoConv == Conv("None", Unset)

(***************************************************************************)
(* bind_collector.rs                                                       *)
(***************************************************************************)
\* DuckDbBindCollector::default
new_bind_collector == <<>>

\* Output::new(Owned(Null)), bind.to_sql(&mut out), out.into_inner():
\* the buffer starts as Null and holds whatever the conversion set last
to_sql_output(conv) == IF conv.write = Unset THEN NullValue ELSE conv.write

\* a push that trusts the buffer and ignores IsNull
push_bound_value_stale(b, conv) ==
    IF conv.ret = "Err"
    THEN [binds |-> b, res |-> "SerializationError"]
    ELSE [binds |-> Append(b, to_sql_output(conv)), res |-> "Ok"]

\* BindCollector::push_bound_value
push_bound_value(b, conv) ==
    IF conv.ret = "Err"
    THEN [binds |-> b, res |-> "SerializationError"]
    ELSE LET bind == to_sql_output(conv)
             bind_value == IF conv.ret = "No" THEN bind ELSE NullValue
         IN  [binds |-> Append(b, bind_value), res |-> "Ok"]

\* a push_null_value that puts Null in front of the entries pushed so far
push_null_value_front(b) == [binds |-> <<NullValue>> \o b, res |-> "Ok"]

\* a push_null_value that pushes the category's default instead of Null
push_null_value_default(b) == [binds |-> Append(b, IntValue(0)), res |-> "Ok"]

\* BindCollector::push_null_value
push_null_value(b) == [binds |-> Append(b, NullValue), res |-> "Ok"]

\* DuckDbBindCollector::into_params: params_from_iter(self.binds)
into_params(b) == b

(***************************************************************************)
(* The fragments of a statement, as its walk_ast hands them to the query   *)
(* builder (render pass) and to the bind collector (bind pass).            *)
(*   sql         push_sql(text)                                            *)
(*   ident       push_identifier(text)                                     *)
(*   bind        push_bind_param()  /  push_bound_value(conv)              *)
(*   null        push_bind_param()  /  push_null_value()                   *)
(*   value_only  (nothing)          /  push_bound_value(conv)              *)
(***************************************************************************)
Frag(k, text, conv) == [k |-> k, text |-> text, conv |-> conv]
SqlFrag(text) == Frag("sql", text, NoConv)
IdentFrag(name) == Frag("ident", name, NoConv)
BindFrag(conv) == Frag("bind", <<>>, conv)
\* the target category of a null fragment never reaches the collector: its
\* metadata is the unit value
Categories == {"Integer", "Text"}
NullFrag(category) == Frag("null", <<category>>, NoConv)
ValueOnlyFrag(conv) == Frag("value_only", <<>>, conv)

\* what the render pass appends for one fragment
render_frag(s, f) ==
    CASE f.k = "sql" -> push_sql(s, f.text)
      [] f.k = "ident" -> push_identifier(s, f.text)
      [] f.k \in {"bind", "null"} -> push_bind_param(s)
      [] OTHER -> s

\* what the bind pass does for one fragment
bind_frag(b, f) ==
    CASE f.k \in {"bind", "value_only"} -> push_bound_value(b, f.conv)
      [] f.k = "null" -> push_null_value(b)
      [] OTHER -> [binds |-> b, res |-> "Ok"]

\* the render pass of a whole walk: every fragment in order, then finish
to_sql(fs) ==
    LET walk[i \in 0..Len(fs)] ==
            IF i = 0 THEN new_query_builder ELSE render_frag(walk[i - 1], fs[i])
    IN  finish(walk[Len(fs)])

\* the bind pass of a whole walk: it stops at the first push that fails
collect_binds(fs) ==
    LET walk[i \in 0..Len(fs)] ==
            IF i = 0 THEN [binds |-> new_bind_collector, res |-> "Ok"]
            ELSE IF walk[i - 1].res # "Ok" THEN walk[i - 1]
            ELSE bind_frag(walk[i - 1].binds, fs[i])
    IN  walk[Len(fs)]

(***************************************************************************)
(* connection.rs: rows and fields.  A row is [values, column_names]; a     *)
(* field is [row, idx] with idx counted from 0.                            *)
(***************************************************************************)
\* Option<T>: None is the empty sequence, Some(x) the sequence of x alone
None == <<>>
Some(x) == <<x>>
IsSome(o) == Len(o) = 1
Unwrap(o) == o[1]

DuckDbRow(values, column_names) == [values |-> values, column_names |-> column_names]

\* Row::field_count: self.values.len()
field_count(row) == Len(row.values)

\* DuckDbField::new
DuckDbField(row, idx) == [row |-> row, idx |-> idx]

\* Vec::get
vec_get(vec, idx) == IF idx >= 0 /\ idx < Len(vec) THEN Some(vec[idx + 1]) ELSE None

\* an is_null that reads a null bitmap the row never filled
is_null_never(field) == FALSE

\* Field::is_null: matches!(self.row.values.get(self.idx), Some(Value::Null))
is_null(field) == vec_get(field.row.values, field.idx) = Some(NullValue)

\* Field::value: self.row.values.get(self.idx).map(Owned(value.clone()))
value(field) == vec_get(field.row.values, field.idx)

\* Field::field_name: self.row.column_names.get(self.idx)
field_name(field) == vec_get(field.row.column_names, field.idx)

(***************************************************************************)
(* error.rs.  A message is a sequence of characters.  A native error       *)
(* (duckdb::Error) is [variant, code, message, a, b, name, detail]; a      *)
(* diesel error is [tag, kind, message, table_name, column_name,           *)
(* constraint_name, statement_position].                                   *)
(***************************************************************************)
\* the string literals of error.rs, character by character
Word ==
    [
        table |->
            <<"t", "a", "b", "l", "e", " ">>,
        column |->
            <<"c", "o", "l", "u", "m", "n", " ">>,
        constraint |->
            <<"c", "o", "n", "s", "t", "r", "a", "i", "n", "t", " ">>,
        unique |->
            <<"u", "n", "i", "q", "u", "e">>,
        duplicate |->
            <<"d", "u", "p", "l", "i", "c", "a", "t", "e">>,
        not_null |->
            <<"n", "o", "t", " ", "n", "u", "l", "l">>,
        foreign_key |->
            <<"f", "o", "r", "e", "i", "g", "n", " ", "k", "e", "y">>,
        check_constraint |->
            <<"c", "h", "e", "c", "k", " ", "c", "o", "n", "s", "t", "r", "a", "i",
              "n", "t">>
    ]

\* the texts of its format! calls, between their arguments
Fmt ==
    [
        ErrorCode |->
            <<"D", "u", "c", "k", "D", "B", " ", "e", "r", "r", "o", "r", " ", "c",
              "o", "d", "e", ":", " ">>,
        InvalidColumnIndex |->
            <<"I", "n", "v", "a", "l", "i", "d", " ", "c", "o", "l", "u", "m", "n",
              " ", "i", "n", "d", "e", "x", ":", " ">>,
        InvalidColumnName |->
            <<"I", "n", "v", "a", "l", "i", "d", " ", "c", "o", "l", "u", "m", "n",
              " ", "n", "a", "m", "e", ":", " ">>,
        InvalidColumnType1 |->
            <<"I", "n", "v", "a", "l", "i", "d", " ", "c", "o", "l", "u", "m", "n",
              " ", "t", "y", "p", "e", " ", "a", "t", " ", "i", "n", "d", "e", "x",
              " ">>,
        InvalidColumnType2 |->
            <<",", " ", "n", "a", "m", "e", " ", "'">>,
        InvalidColumnType3 |->
            <<"'", ":", " ">>,
        InvalidParameterCount1 |->
            <<"I", "n", "v", "a", "l", "i", "d", " ", "p", "a", "r", "a", "m", "e",
              "t", "e", "r", " ", "c", "o", "u", "n", "t", ":", " ", "e", "x", "p",
              "e", "c", "t", "e", "d", " ">>,
        InvalidParameterCount2 |->
            <<",", " ", "g", "o", "t", " ">>,
        StatementChangedRows |->
            <<"U", "n", "e", "x", "p", "e", "c", "t", "e", "d", " ", "n", "u", "m",
              "b", "e", "r", " ", "o", "f", " ", "c", "h", "a", "n", "g", "e", "d",
              " ", "r", "o", "w", "s", ":", " ">>,
        InvalidPath |->
            <<"I", "n", "v", "a", "l", "i", "d", " ", "p", "a", "t", "h", ":", " ">>,
        FromSql1 |->
            <<"C", "o", "n", "v", "e", "r", "s", "i", "o", "n", " ", "f", "a", "i",
              "l", "u", "r", "e", " ", "a", "t", " ", "c", "o", "l", "u", "m", "n",
              " ">>,
        FromSql2 |->
            <<" ", "(", "'">>,
        FromSql3 |->
            <<"'", ")", ":", " ">>,
        Utf8 |->
            <<"U", "T", "F", "-", "8", " ", "c", "o", "n", "v", "e", "r", "s", "i",
              "o", "n", " ", "e", "r", "r", "o", "r", ":", " ">>,
        Nul |->
            <<"N", "u", "l", "l", " ", "b", "y", "t", "e", " ", "i", "n", " ", "s",
              "t", "r", "i", "n", "g", ":", " ">>
    ]

\* char::to_lowercase on the ASCII letters
to_lowercase_char(c) ==
    LET UpperCase ==
            <<"A", "B", "C", "D", "E", "F", "G", "H", "I", "J", "K", "L", "M",
              "N", "O", "P", "Q", "R", "S", "T", "U", "V", "W", "X", "Y", "Z">>
        LowerCase ==
            <<"a", "b", "c", "d", "e", "f", "g", "h", "i", "j", "k", "l", "m",
              "n", "o", "p", "q", "r", "s", "t", "u", "v", "w", "x", "y", "z">>
    IN  IF \E j \in 1..26 : UpperCase[j] = c
        THEN LowerCase[CHOOSE j \in 1..26 : UpperCase[j] = c]
        ELSE c

\* str::to_lowercase
to_lowercase(s) == [i \in 1..Len(s) |-> to_lowercase_char(s[i])]

\* pat occurs in s at the 0-based offset i
matches_at(s, pat, i) ==
    /\ i + Len(pat) <= Len(s)
    /\ SubSeq(s, i + 1, i + Len(pat)) = pat

\* str::contains
contains(s, pat) == \E i \in 0..Len(s) : matches_at(s, pat, i)

\* str::find(&str): the offset of the first occurrence
find(s, pat) ==
    IF contains(s, pat)
    THEN Some(CHOOSE i \in 0..Len(s) :
                  /\ matches_at(s, pat, i)
                  /\ \A j \in 0..(i - 1) : ~matches_at(s, pat, j))
    ELSE None

\* the closure |c| c.is_whitespace() || c == '.' || c == '"' (others = {'.', '"'})
is_stop(c, others) == c \in {" ", "\t", "\n", "\r"} \/ c \in others

\* str::find(closure): the offset of the first character the closure accepts
find_char(s, others) ==
    IF \E i \in 1..Len(s) : is_stop(s[i], others)
    THEN Some((CHOOSE i \in 1..Len(s) :
                   /\ is_stop(s[i], others)
                   /\ \A j \in 1..(i - 1) : ~is_stop(s[j], others)) - 1)
    ELSE None

\* str::trim_matches(c): drop every leading and trailing c
trim_matches(s, c) ==
    LET kept == {i \in 1..Len(s) : s[i] # c}
    IN  IF kept = {} THEN <<>>
        ELSE SubSeq(s, CHOOSE i \in kept : \A j \in kept : i <= j,
                       CHOOSE i \in kept : \A j \in kept : i >= j)

\* the body shared by the three extract_*_name functions
extract_after(message, marker, others) ==
    LET pos == find(message, marker)
    IN  IF IsSome(pos)
        THEN LET after == SubSeq(message, Unwrap(pos) + Len(marker) + 1, Len(message))
                 end == find_char(after, others)
             IN  IF IsSome(end)
                 THEN Some(trim_matches(SubSeq(after, 1, Unwrap(end)), DQ))
                 ELSE None
        ELSE None

\* extract_table_name
extract_table_name(message) == extract_after(message, Word.table, {".", DQ})

\* extract_column_name
extract_column_name(message) == extract_after(message, Word.column, {".", DQ})

\* extract_constraint_name
extract_constraint_name(message) == extract_after(message, Word.constraint, {DQ})

\* Display of an unsigned integer
RECURSIVE itoa(_)
itoa(n) ==
    LET Digits == <<"0", "1", "2", "3", "4", "5", "6", "7", "8", "9">>
    IN  IF n < 10 THEN <<Digits[n + 1]>>
        ELSE itoa(n \div 10) \o <<Digits[(n % 10) + 1]>>

\* duckdb::Error
NativeError(variant, code, message, a, b, name, detail) ==
    [variant |-> variant, code |-> code, message |-> message,
     a |-> a, b |-> b, name |-> name, detail |-> detail]
DuckDBFailure(code, message_opt) ==
    NativeError("DuckDBFailure", code, message_opt, 0, 0, <<>>, <<>>)
InvalidParameterCount(expected, actual) ==
    NativeError("InvalidParameterCount", 0, None, expected, actual, <<>>, <<>>)
\* any other variant, by its Display text
OtherNativeError(variant, display) ==
    NativeError(variant, 0, None, 0, 0, <<>>, display)

\* diesel::result::Error
DieselError(tag, kind, message, table, column, constraint) ==
    [tag |-> tag, kind |-> kind, message |-> message,
     table_name |-> table, column_name |-> column, constraint_name |-> constraint,
     statement_position |-> None]
DatabaseError(kind, message, table, column, constraint) ==
    DieselError("DatabaseError", kind, message, table, column, constraint)
SerializationError(message) ==
    DieselError("SerializationError", "", message, None, None, None)
DeserializationError(message) ==
    DieselError("DeserializationError", "", message, None, None, None)

\* a classification that tests "not null" before "unique" and "duplicate"
database_error_kind_reordered(message) ==
    LET message_lower == to_lowercase(message)
    IN  IF contains(message_lower, Word.not_null) THEN "NotNullViolation"
        ELSE IF contains(message_lower, Word.unique) \/ contains(message_lower, Word.duplicate)
        THEN "UniqueViolation"
        ELSE IF contains(message_lower, Word.foreign_key) THEN "ForeignKeyViolation"
        ELSE IF contains(message_lower, Word.check_constraint) THEN "CheckViolation"
        ELSE "Unknown"

\* the kind of a DuckDBFailure, by the content of its message
database_error_kind(message) ==
    LET message_lower == to_lowercase(message)
    IN  IF contains(message_lower, Word.unique) \/ contains(message_lower, Word.duplicate)
        THEN "UniqueViolation"
        ELSE IF contains(message_lower, Word.not_null) THEN "NotNullViolation"
        ELSE IF contains(message_lower, Word.foreign_key) THEN "ForeignKeyViolation"
        ELSE IF contains(message_lower, Word.check_constraint) THEN "CheckViolation"
        ELSE "Unknown"

\* a translation that classifies the variants of the catch-all arm the way
\* it classifies a DuckDBFailure
map_diesel_error_catch_all_classified(e) ==
    CASE e.variant = "DuckDBFailure" ->
             LET message == IF IsSome(e.message) THEN Unwrap(e.message)
                            ELSE Fmt.ErrorCode \o itoa(e.code)
             IN  DatabaseError(database_error_kind(message), message,
                               extract_table_name(message),
                               extract_column_name(message),
                               extract_constraint_name(message))
      [] e.variant = "InvalidColumnIndex" ->
             DeserializationError(Fmt.InvalidColumnIndex \o itoa(e.a))
      [] e.variant = "InvalidColumnName" ->
             DeserializationError(Fmt.InvalidColumnName \o e.name)
      [] e.variant = "InvalidColumnType" ->
             DeserializationError(Fmt.InvalidColumnType1 \o itoa(e.a)
                                  \o Fmt.InvalidColumnType2 \o e.name
                                  \o Fmt.InvalidColumnType3 \o e.detail)
      [] e.variant = "InvalidParameterCount" ->
             DatabaseError("Unknown",
                           Fmt.InvalidParameterCount1 \o itoa(e.a)
                           \o Fmt.InvalidParameterCount2 \o itoa(e.b),
                           None, None, None)
      [] e.variant = "StatementChangedRows" ->
             DeserializationError(Fmt.StatementChangedRows \o itoa(e.a))
      [] e.variant = "InvalidPath" ->
             DeserializationError(Fmt.InvalidPath \o e.name)
      [] e.variant = "ToSqlConversionFailure" -> SerializationError(e.detail)
      [] e.variant = "FromSqlConversionFailure" ->
             DeserializationError(Fmt.FromSql1 \o itoa(e.a) \o Fmt.FromSql2 \o e.name
                                  \o Fmt.FromSql3 \o e.detail)
      [] e.variant = "Utf8Error" -> DeserializationError(Fmt.Utf8 \o e.detail)
      [] e.variant = "NulError" -> DeserializationError(Fmt.Nul \o e.detail)
      [] OTHER -> DatabaseError(database_error_kind(e.detail), e.detail,
                                extract_table_name(e.detail),
                                extract_column_name(e.detail),
                                extract_constraint_name(e.detail))

\* MapDieselError::map_diesel_error, the closure applied to the Err
map_diesel_error(e) ==
    CASE e.variant = "DuckDBFailure" ->
             LET message == IF IsSome(e.message) THEN Unwrap(e.message)
                            ELSE Fmt.ErrorCode \o itoa(e.code)
             IN  DatabaseError(database_error_kind(message), message,
                               extract_table_name(message),
                               extract_column_name(message),
                               extract_constraint_name(message))
      [] e.variant = "InvalidColumnIndex" ->
             DeserializationError(Fmt.InvalidColumnIndex \o itoa(e.a))
      [] e.variant = "InvalidColumnName" ->
             DeserializationError(Fmt.InvalidColumnName \o e.name)
      [] e.variant = "InvalidColumnType" ->
             DeserializationError(Fmt.InvalidColumnType1 \o itoa(e.a)
                                  \o Fmt.InvalidColumnType2 \o e.name
                                  \o Fmt.InvalidColumnType3 \o e.detail)
      [] e.variant = "InvalidParameterCount" ->
             DatabaseError("Unknown",
                           Fmt.InvalidParameterCount1 \o itoa(e.a)
                           \o Fmt.InvalidParameterCount2 \o itoa(e.b),
                           None, None, None)
      [] e.variant = "StatementChangedRows" ->
             DeserializationError(Fmt.StatementChangedRows \o itoa(e.a))
      [] e.variant = "InvalidPath" ->
             DeserializationError(Fmt.InvalidPath \o e.name)
      [] e.variant = "ToSqlConversionFailure" -> SerializationError(e.detail)
      [] e.variant = "FromSqlConversionFailure" ->
             DeserializationError(Fmt.FromSql1 \o itoa(e.a) \o Fmt.FromSql2 \o e.name
                                  \o Fmt.FromSql3 \o e.detail)
      [] e.variant = "Utf8Error" -> DeserializationError(Fmt.Utf8 \o e.detail)
      [] e.variant = "NulError" -> DeserializationError(Fmt.Nul \o e.detail)
      [] OTHER -> DatabaseError("Unknown", e.detail, None, None, None)

\* Result<T, E>: val holds the value of an Ok, err the error of an Err
Ok(v) == [ok |-> TRUE, val |-> <<v>>, err |-> <<>>]
Err(e) == [ok |-> FALSE, val |-> <<>>, err |-> <<e>>]

\* a translation that takes "no rows" for an empty success
map_err_no_rows(r) ==
    IF r.ok THEN r
    ELSE IF r.err[1].variant = "QueryReturnedNoRows" THEN Ok(0)
    ELSE Err(map_diesel_error(r.err[1]))

\* Result::map_diesel_error: an Ok passes through, an Err is translated
map_err(r) == IF r.ok THEN r ELSE Err(map_diesel_error(r.err[1]))

(***************************************************************************)
(* query_fragments.rs.  walk_ast is given as the fragments it hands to the *)
(* pass, which are the same in the render pass and in the bind pass.  A    *)
(* static clause is [limit_clause, offset_clause], each None (NoLimit-     *)
(* Clause, NoOffsetClause) or Some(operand); the type of the clause picks  *)
(* one of four implementations.                                            *)
(***************************************************************************)
LimitKw == <<" ", "L", "I", "M", "I", "T", " ">>
OffsetKw == <<" ", "O", "F", "F", "S", "E", "T", " ">>

\* LimitClause<L>::walk_ast: " LIMIT " and the bound operand
limit_walk_ast(l) == <<SqlFrag(LimitKw), BindFrag(Conv("No", IntValue(l)))>>

\* OffsetClause<O>::walk_ast: " OFFSET " and the bound operand
offset_walk_ast(o) == <<SqlFrag(OffsetKw), BindFrag(Conv("No", IntValue(o)))>>

LimitOffsetClause(l, o) == [limit_clause |-> l, offset_clause |-> o]

Shape(c) ==
    CASE ~IsSome(c.limit_clause) /\ ~IsSome(c.offset_clause) -> "NoLimitNoOffset"
      [] IsSome(c.limit_clause) /\ ~IsSome(c.offset_clause) -> "LimitOnly"
      [] ~IsSome(c.limit_clause) /\ IsSome(c.offset_clause) -> "OffsetOnly"
      [] OTHER -> "LimitAndOffset"

\* a LimitAndOffset implementation that walks the offset first
walk_ast_static_swapped(c) ==
    CASE Shape(c) = "NoLimitNoOffset" -> <<>>
      [] Shape(c) = "LimitOnly" -> limit_walk_ast(Unwrap(c.limit_clause))
      [] Shape(c) = "OffsetOnly" -> offset_walk_ast(Unwrap(c.offset_clause))
      [] OTHER -> offset_walk_ast(Unwrap(c.offset_clause)) \o limit_walk_ast(Unwrap(c.limit_clause))

\* a LimitAndOffset implementation that walks the limit and not the offset
walk_ast_static_limit_only(c) ==
    CASE Shape(c) = "NoLimitNoOffset" -> <<>>
      [] Shape(c) = "LimitOnly" -> limit_walk_ast(Unwrap(c.limit_clause))
      [] Shape(c) = "OffsetOnly" -> offset_walk_ast(Unwrap(c.offset_clause))
      [] OTHER -> limit_walk_ast(Unwrap(c.limit_clause))

\* QueryFragment<DuckDb> for LimitOffsetClause<_, _>: the four implementations
walk_ast_static(c) ==
    CASE Shape(c) = "NoLimitNoOffset" -> <<>>
      [] Shape(c) = "LimitOnly" -> limit_walk_ast(Unwrap(c.limit_clause))
      [] Shape(c) = "OffsetOnly" -> offset_walk_ast(Unwrap(c.offset_clause))
      [] OTHER -> limit_walk_ast(Unwrap(c.limit_clause)) \o offset_walk_ast(Unwrap(c.offset_clause))

\* QueryFragment<DuckDb> for BoxedLimitOffsetClause: each part that is Some
walk_ast_boxed(b) ==
    (IF IsSome(b.limit) THEN limit_walk_ast(Unwrap(b.limit)) ELSE <<>>)
    \o (IF IsSome(b.offset) THEN offset_walk_ast(Unwrap(b.offset)) ELSE <<>>)

\* an into_boxed whose OffsetOnly implementation boxes the offset as the limit
into_boxed_misplaced(c) ==
    CASE Shape(c) = "OffsetOnly" -> [limit |-> Some(Unwrap(c.offset_clause)), offset |-> None]
      [] OTHER -> [limit |-> c.limit_clause, offset |-> c.offset_clause]

\* IntoBoxedClause::into_boxed: the four implementations
into_boxed(c) ==
    CASE Shape(c) = "NoLimitNoOffset" -> [limit |-> None, offset |-> None]
      [] Shape(c) = "LimitOnly" -> [limit |-> Some(Unwrap(c.limit_clause)), offset |-> None]
      [] Shape(c) = "OffsetOnly" -> [limit |-> None, offset |-> Some(Unwrap(c.offset_clause))]
      [] OTHER -> [limit |-> Some(Unwrap(c.limit_clause)), offset |-> Some(Unwrap(c.offset_clause))]

\* both passes over a walk
Passes(fs) == [sql |-> to_sql(fs), binds |-> into_params(collect_binds(fs).binds)]

(***************************************************************************)
(* The engine (the duckdb crate) as the adapter calls it.  What the engine *)
(* will do during one call is the environment env = [table, fault, count]: *)
(* the result set of the statement, the engine call that fails (if any),   *)
(* and the number of rows an execute changes.  Every engine call answers   *)
(* [res, log]: its Result and the record of the call.                      *)
(***************************************************************************)

\* a table or result set: its columns, the number of its rows, and how many
\* rows of the table it was selected from come before its first row
EngineTable(cols, nrows) == [cols |-> cols, nrows |-> nrows, skip |-> 0]

\* the value the result set holds in row r (from 1), column c (from 0)
Cell(r, c) == IF (r + c) % 2 = 1 THEN NullValue ELSE IntValue(r)

Fault(at, r, c) == [at |-> at, row |-> r, col |-> c]
NoFault == Fault("none", 0, 0)

\* the messages of the engine's failures
EngineMsg ==
    [parser |-> <<"s", "y", "n", "t", "a", "x">>,
     duplicate_key |-> <<"D", "u", "p", "l", "i", "c", "a", "t", "e", " ", "k", "e", "y">>,
     fetch |-> <<"f", "e", "t", "c", "h">>,
     column |-> <<"c", "o", "l">>]

Answer(call, res, n) == [res |-> res, log |-> <<[call |-> call, ok |-> res.ok, n |-> n]>>]

\* the engine's parser: the '?' outside quoted identifiers
placeholder_count(s) ==
    LET count[i \in 1..(Len(s) + 2), quoted \in BOOLEAN] ==
            IF i > Len(s) THEN 0
            ELSE IF quoted
                 THEN IF s[i] # DQ THEN count[i + 1, TRUE]
                      ELSE IF i + 1 <= Len(s) /\ s[i + 1] = DQ
                           THEN count[i + 2, TRUE]
                           ELSE count[i + 1, FALSE]
                 ELSE IF s[i] = DQ THEN count[i + 1, TRUE]
                      ELSE (IF s[i] = "?" THEN 1 ELSE 0) + count[i + 1, FALSE]
    IN  count[1, FALSE]

\* Connection::prepare
engine_prepare(s, env) ==
    Answer("prepare",
           IF env.fault.at = "prepare"
           THEN Err(DuckDBFailure(1, Some(EngineMsg.parser)))
           ELSE Ok([sql |-> s, nparams |-> placeholder_count(s)]),
           0)

\* Connection::prepare_cached: the same statement, kept by the engine
engine_prepare_cached(s, env) ==
    Answer("prepare_cached",
           IF env.fault.at = "prepare"
           THEN Err(DuckDBFailure(1, Some(EngineMsg.parser)))
           ELSE Ok([sql |-> s, nparams |-> placeholder_count(s)]),
           0)

\* binding the parameters of a call: as many as the statement has placeholders
engine_bind(q, ps) ==
    IF Len(ps) # q.nparams THEN Err(InvalidParameterCount(Len(ps), q.nparams)) ELSE Ok(0)

\* Statement::execute
engine_execute(q, ps, env) ==
    Answer("execute",
           IF ~engine_bind(q, ps).ok THEN engine_bind(q, ps)
           ELSE IF env.fault.at = "execute"
                THEN Err(DuckDBFailure(1, Some(EngineMsg.duplicate_key)))
                ELSE Ok(env.count),
           Len(ps))

WhereKw == <<" ", "W", "H", "E", "R", "E", " ", "i", "d", " ", ">", " ">>

\* The engine's SELECT over the rows of a table, in their order: the rows
\* kept by WHERE id > ?, without the first OFFSET ? of them, cut after
\* LIMIT ? of them.  The operand of a keyword is the parameter of the ? that
\* follows it: each ? takes the parameter of its place in the text.
engine_select(s, ps, table) ==
    LET operand(w) ==
            LET found == {i \in 1..(Len(s) - Len(w)) :
                             SubSeq(s, i, i + Len(w)) = w \o <<"?">>}
                first == CHOOSE a \in found : \A b \in found : a <= b
            IN  IF found = {} THEN None
                ELSE Some(ps[Cardinality({j \in 1..(first + Len(w)) : s[j] = "?"})].v)
        filter == operand(WhereKw)
        limit == operand(LimitKw)
        offset == operand(OffsetKw)
        lo == IF IsSome(filter) /\ filter[1] > table.skip THEN filter[1] ELSE table.skip
        hi == table.skip + table.nrows
        from == IF IsSome(offset) THEN lo + offset[1] ELSE lo
        to == IF IsSome(limit) /\ from + limit[1] < hi THEN from + limit[1] ELSE hi
    IN  IF from >= to
        THEN [cols |-> table.cols, nrows |-> 0, skip |-> 0]
        ELSE [cols |-> table.cols, nrows |-> to - from, skip |-> from]

\* Statement::query: the rows of the result set, not yet fetched
engine_query(q, ps, env) ==
    Answer("query",
           IF ~engine_bind(q, ps).ok THEN engine_bind(q, ps)
           ELSE IF env.fault.at = "execute"
                THEN Err(DuckDBFailure(1, Some(EngineMsg.duplicate_key)))
                ELSE Ok(env.table),
           Len(ps))

\* Connection::execute_batch: the statements of the text, split at ';', run
\* one after the other without parameters up to the first one that fails
\* (env.fails: the statements that fail when they are run); the answer
\* records the text the engine was given
engine_execute_batch(text, env) ==
    LET cuts == {i \in 1..Len(text) : text[i] = ";"} \cup {Len(text) + 1}
        nstmts == IF text = <<>> THEN 0 ELSE Cardinality(cuts)
        failing == {k \in 1..nstmts : k \in env.fails}
        res == IF failing = {} THEN Ok(0)
               ELSE LET k == CHOOSE f \in failing : \A g \in failing : f <= g
                    IN  Err(DuckDBFailure(1, Some(EngineMsg.parser \o <<" ">> \o itoa(k))))
    IN  [res |-> res,
         log |-> <<[call |-> "execute_batch", ok |-> res.ok, n |-> 0, sql |-> text]>>]

\* Rows::next, its k-th call: Some(row k), or None after the last row
engine_next(table, k, env) ==
    Answer("next",
           IF env.fault.at = "next" /\ env.fault.row = k
           THEN Err(DuckDBFailure(1, Some(EngineMsg.fetch)))
           ELSE IF k <= table.nrows THEN Ok(Some(table.skip + k)) ELSE Ok(None),
           k)

\* Row::get::<_, Value>(i) on row r
engine_get(table, r, i, env) ==
    Answer("get",
           IF env.fault = Fault("get", r, i)
           THEN Err(OtherNativeError("InvalidColumnType", EngineMsg.column))
           ELSE Ok(Cell(r, i)),
           i)

\* Statement::column_name(i)
engine_column_name(table, r, i, env) ==
    Answer("column_name",
           IF env.fault = Fault("column_name", r, i)
           THEN Err(OtherNativeError("InvalidColumnIndex", EngineMsg.column))
           ELSE Ok(table.cols[i + 1]),
           i)

\* Statement::column_count
engine_column_count(table) == Len(table.cols)

(***************************************************************************)
(* connection.rs: DuckDbRow::from_duckdb_row, the statement cache, load    *)
(* and execute_returning_count.                                            *)
(***************************************************************************)
\* the closure |e| DeserializationError(e.into()): the error's Display text
deserialization_error(r) == IF r.ok THEN r ELSE Err(DeserializationError(r.err[1].detail))

\* the loop of from_duckdb_row from column i on
RECURSIVE from_duckdb_row_loop(_, _, _, _, _, _, _)
from_duckdb_row_loop(table, r, env, i, values, column_names, log) ==
    IF i >= engine_column_count(table)
    THEN [res |-> Ok(DuckDbRow(values, column_names)), log |-> log]
    ELSE LET v == engine_get(table, r, i, env)
             val == deserialization_error(v.res)
         IN  IF ~val.ok THEN [res |-> val, log |-> log \o v.log]
             ELSE LET n == engine_column_name(table, r, i, env)
                      name == deserialization_error(n.res)
                  IN  IF ~name.ok THEN [res |-> name, log |-> log \o v.log \o n.log]
                      ELSE from_duckdb_row_loop(table, r, env, i + 1,
                                                Append(values, val.val[1]),
                                                Append(column_names, name.val[1]),
                                                log \o v.log \o n.log)

\* a from_duckdb_row that collects the names from the last column to the first
from_duckdb_row_names_reversed(table, r, env) ==
    LET a == from_duckdb_row_loop(table, r, env, 0, <<>>, <<>>, <<>>)
    IN  IF ~a.res.ok THEN a
        ELSE LET row == a.res.val[1]
                 n == Len(row.column_names)
             IN  [res |-> Ok(DuckDbRow(row.values,
                                       [i \in 1..n |-> row.column_names[n + 1 - i]])),
                  log |-> a.log]

\* DuckDbRow::from_duckdb_row
from_duckdb_row(table, r, env) == from_duckdb_row_loop(table, r, env, 0, <<>>, <<>>, <<>>)

\* while let Some(row) = rows.next().map_diesel_error()? { result_rows.push(..?) }
RECURSIVE fetch_rows(_, _, _, _, _)
fetch_rows(table, env, k, result_rows, log) ==
    LET n == engine_next(table, k, env)
        next == map_err(n.res)
    IN  IF ~next.ok THEN [res |-> next, log |-> log \o n.log]
        ELSE IF ~IsSome(next.val[1]) THEN [res |-> Ok(result_rows), log |-> log \o n.log]
        ELSE LET row == from_duckdb_row(table, Unwrap(next.val[1]), env)
             IN  IF ~row.res.ok THEN [res |-> row.res, log |-> log \o n.log \o row.log]
                 ELSE fetch_rows(table, env, k + 1, Append(result_rows, row.res.val[1]),
                                 log \o n.log \o row.log)

\* a loop whose failure leaves a cursor over nothing instead of an error
query_rows_partial(p, ps, env) ==
    LET prepared == map_err(p.res)
    IN  IF ~prepared.ok THEN [res |-> prepared, log |-> p.log]
        ELSE LET q == engine_query(prepared.val[1], ps, env)
                 rows == map_err(q.res)
             IN  IF ~rows.ok THEN [res |-> rows, log |-> p.log \o q.log]
                 ELSE LET f == fetch_rows(rows.val[1], env, 1, <<>>, p.log \o q.log)
                      IN  IF f.res.ok THEN f ELSE [res |-> Ok(<<>>), log |-> f.log]

\* q.query(params).map_diesel_error()? and the loop over its rows
query_rows(p, ps, env) ==
    LET prepared == map_err(p.res)
    IN  IF ~prepared.ok THEN [res |-> prepared, log |-> p.log]
        ELSE LET q == engine_query(prepared.val[1], ps, env)
                 rows == map_err(q.res)
             IN  IF ~rows.ok THEN [res |-> rows, log |-> p.log \o q.log]
                 ELSE fetch_rows(rows.val[1], env, 1, <<>>, p.log \o q.log)

\* a Cached arm that queries without the bound values
load_cached_unbound(s, ps, env) == query_rows(engine_prepare_cached(s, env), <<>>, env)

\* load, the arm MaybeCached::Cached(sql)
load_cached(s, ps, env) == query_rows(engine_prepare_cached(s, env), ps, env)

\* load, the arm MaybeCached::CannotCache(sql)
load_cannot_cache(s, ps, env) == query_rows(engine_prepare(s, env), ps, env)

\* an execute that cuts or pads the values to the statement's placeholders
execute_count_fitted(p, ps, env) ==
    LET prepared == map_err(p.res)
    IN  IF ~prepared.ok THEN [res |-> prepared, log |-> p.log]
        ELSE LET q == prepared.val[1]
                 fitted == [i \in 1..q.nparams |->
                               IF i <= Len(ps) THEN ps[i] ELSE NullValue]
                 x == engine_execute(q, fitted, env)
             IN  [res |-> map_err(x.res), log |-> p.log \o x.log]

\* q.execute(params).map_diesel_error()?
execute_count(p, ps, env) ==
    LET prepared == map_err(p.res)
    IN  IF ~prepared.ok THEN [res |-> prepared, log |-> p.log]
        ELSE LET x == engine_execute(prepared.val[1], ps, env)
             IN  [res |-> map_err(x.res), log |-> p.log \o x.log]

\* execute_returning_count, the arm MaybeCached::Cached(sql)
execute_cached(s, ps, env) == execute_count(engine_prepare_cached(s, env), ps, env)

\* execute_returning_count, the arm MaybeCached::CannotCache(sql)
execute_cannot_cache(s, ps, env) == execute_count(engine_prepare(s, env), ps, env)

\* A statement handed to the connection: its fragments and whether the
\* statement cache may keep it.  Its cache key is its structural identity:
\* the fragments without their bound values.
Source(fs, cacheable) == [frags |-> fs, cacheable |-> cacheable]
CacheKey(source) == [i \in 1..Len(source.frags) |->
                        [k |-> source.frags[i].k, text |-> source.frags[i].text]]

MaybeCached(kind, s) == [kind |-> kind, sql |-> s]

\* StatementCache::cached_statement with the prepare function |sql, _| Ok(sql.to_owned()):
\* look the key up, insert the rendered text on a miss.  MaybeCached is
\* open to further variants (the arm _ of the callers); a source that
\* carries a field variant is answered with that variant.
cached_statement(cache, source) ==
    LET s == to_sql(source.frags)
        key == CacheKey(source)
    IN  IF "variant" \in DOMAIN source
        THEN [cache |-> cache, stmt |-> MaybeCached(source.variant, s)]
        ELSE IF ~source.cacheable
        THEN [cache |-> cache, stmt |-> MaybeCached("CannotCache", s)]
        ELSE IF \E e \in cache : e.key = key
        THEN [cache |-> cache,
              stmt |-> MaybeCached("Cached", (CHOOSE e \in cache : e.key = key).sql)]
        ELSE [cache |-> cache \cup {[key |-> key, sql |-> s]},
              stmt |-> MaybeCached("Cached", s)]

\* what a call leaves behind: the statement cache, the engine calls it made,
\* and what it returns (Ok, Err or a panic)
Returned(cache, a) ==
    [cache |-> cache, log |-> a.log, ret |-> IF a.res.ok THEN "Ok" ELSE "Err", res |-> a.res]
Panicked(cache) ==
    [cache |-> cache, log |-> <<>>, ret |-> "Panic", res |-> Err(SerializationError(<<>>))]

\* a load that turns an unexpected statement cache state into an error
load_recovering(cache, source, env) ==
    LET c == cached_statement(cache, source)
        b == collect_binds(source.frags)
    IN  IF b.res # "Ok"
        THEN Returned(c.cache, [res |-> Err(SerializationError(<<>>)), log |-> <<>>])
        ELSE LET ps == into_params(b.binds)
             IN  CASE c.stmt.kind = "Cached" ->
                          Returned(c.cache, load_cached(c.stmt.sql, ps, env))
                   [] c.stmt.kind = "CannotCache" ->
                          Returned(c.cache, load_cannot_cache(c.stmt.sql, ps, env))
                   [] OTHER ->
                          Returned(c.cache, [res |-> Err(SerializationError(<<>>)),
                                             log |-> <<>>])

\* LoadConnection::load, up to the Vec of rows the cursor is made of
load(cache, source, env) ==
    LET c == cached_statement(cache, source)
        b == collect_binds(source.frags)
    IN  IF b.res # "Ok"
        THEN Returned(c.cache, [res |-> Err(SerializationError(<<>>)), log |-> <<>>])
        ELSE LET ps == into_params(b.binds)
             IN  CASE c.stmt.kind = "Cached" ->
                          Returned(c.cache, load_cached(c.stmt.sql, ps, env))
                   [] c.stmt.kind = "CannotCache" ->
                          Returned(c.cache, load_cannot_cache(c.stmt.sql, ps, env))
                   [] OTHER -> Panicked(c.cache)

\* an execute_returning_count that collects the binds before it asks the
\* statement cache
execute_returning_count_binds_first(cache, source, env) ==
    LET b == collect_binds(source.frags)
    IN  IF b.res # "Ok"
        THEN Returned(cache, [res |-> Err(SerializationError(<<>>)), log |-> <<>>])
        ELSE LET c == cached_statement(cache, source)
                 ps == into_params(b.binds)
             IN  CASE c.stmt.kind = "Cached" ->
                          Returned(c.cache, execute_cached(c.stmt.sql, ps, env))
                   [] c.stmt.kind = "CannotCache" ->
                          Returned(c.cache, execute_cannot_cache(c.stmt.sql, ps, env))
                   [] OTHER -> Panicked(c.cache)

\* Connection::execute_returning_count
execute_returning_count(cache, source, env) ==
    LET c == cached_statement(cache, source)
        b == collect_binds(source.frags)
    IN  IF b.res # "Ok"
        THEN Returned(c.cache, [res |-> Err(SerializationError(<<>>)), log |-> <<>>])
        ELSE LET ps == into_params(b.binds)
             IN  CASE c.stmt.kind = "Cached" ->
                          Returned(c.cache, execute_cached(c.stmt.sql, ps, env))
                   [] c.stmt.kind = "CannotCache" ->
                          Returned(c.cache, execute_cannot_cache(c.stmt.sql, ps, env))
                   [] OTHER -> Panicked(c.cache)

\* a batch_execute that keeps the text in the statement cache
batch_execute_cached(cache, query, env) ==
    LET c == cached_statement(cache, Source(<<SqlFrag(query)>>, TRUE))
        a == engine_execute_batch(query, env)
    IN  Returned(c.cache, [res |-> map_err(a.res), log |-> a.log])

\* SimpleConnection::batch_execute
batch_execute(cache, query, env) ==
    LET a == engine_execute_batch(query, env)
    IN  Returned(cache, [res |-> map_err(a.res), log |-> a.log])

\* DuckDbCursor::new: rows.into_iter()
new_cursor(rows) == rows

\* a cursor that hands out the rows from the last one to the first
cursor_next_back(cur) ==
    IF cur = <<>> THEN [item |-> None, rows |-> cur]
    ELSE [item |-> Some(Ok(cur[Len(cur)])), rows |-> SubSeq(cur, 1, Len(cur) - 1)]

\* Iterator::next for DuckDbCursor: self.rows.next().map(Ok)
cursor_next(cur) ==
    IF cur = <<>> THEN [item |-> None, rows |-> cur]
    ELSE [item |-> Some(Ok(Head(cur))), rows |-> Tail(cur)]

\* RowIndex<usize>::idx
idx_usize(row, idx) == IF idx < field_count(row) THEN Some(idx) ELSE None

\* a lookup by name that keeps the last column of that name
idx_str_last(row, name) ==
    LET n == Len(row.column_names)
        scan[i \in 0..n] ==
            IF i = 0 THEN None
            ELSE IF row.column_names[i] = name THEN Some(i - 1)
            ELSE scan[i - 1]
    IN  scan[n]

\* RowIndex<&str>::idx: for (i, name) in column_names.iter().enumerate(),
\* return Some(i) at the first name == field_name; None after the loop
idx_str(row, name) ==
    LET n == Len(row.column_names)
        scan[i \in 0..n] ==
            IF i = n THEN None
            ELSE IF row.column_names[i + 1] = name THEN Some(i)
            ELSE scan[i + 1]
    IN  scan[0]

\* Row::get: let idx = self.idx(idx)?; Some(DuckDbField::new(self, idx))
row_get(row, idx) == IF IsSome(idx) THEN Some(DuckDbField(row, Unwrap(idx))) ELSE None

(***************************************************************************)
(* The statements and the environments the connection is driven with.      *)
(***************************************************************************)
Src ==
    [\* one bound value: one placeholder, one entry
     bound |-> Source(<<SqlFrag(<<"a">>), BindFrag(Conv("No", IntValue(1)))>>, TRUE),
     \* the same statement where the cache may not keep it
     bound_uncached |->
         Source(<<SqlFrag(<<"a">>), BindFrag(Conv("No", IntValue(1)))>>, FALSE),
     \* raw text with a '?' and no bound value: one placeholder, no entry
     raw_placeholder |-> Source(<<SqlFrag(<<"?">>)>>, FALSE),
     \* a value bound without a placeholder: no placeholder, one entry
     value_only |->
         Source(<<SqlFrag(<<"a">>), ValueOnlyFrag(Conv("No", IntValue(1)))>>, TRUE),
     \* a statement whose conversion fails in the bind pass
     bind_fails |->
         Source(<<SqlFrag(<<"a">>), BindFrag(Conv("Err", IntValue(1)))>>, TRUE),
     \* an identifier named ?, and a null
     quoted |-> Source(<<IdentFrag(<<"?">>), NullFrag("Integer")>>, FALSE)]

Sources == {Src[k] : k \in DOMAIN Src}

Env(table, fault, count) == [table |-> table, fault |-> fault, count |-> count]

\* result sets of every size, and one whose two columns share a name
Tables ==
    {EngineTable(<<"id", "name">>, n) : n \in 0..MaxRows}
    \cup {EngineTable(<<"x", "x">>, 1)}

Faults(table) ==
    {NoFault, Fault("prepare", 0, 0), Fault("execute", 0, 0)}
    \cup {Fault("next", k, 0) : k \in 1..(table.nrows + 1)}
    \cup {Fault(at, r, c) : at \in {"get", "column_name"},
                            r \in 1..table.nrows,
                            c \in 0..(Len(table.cols) - 1)}

LoadEnvs == UNION {{Env(t, f, 0) : f \in Faults(t)} : t \in Tables}

ExecuteEnvs ==
    {Env(EngineTable(<<"id", "name">>, 0), f, n) :
        f \in {NoFault, Fault("prepare", 0, 0), Fault("execute", 0, 0)},
        n \in 0..1}

NoField == [get |-> "none", at |-> 0, name |-> "", found |-> None]

\* what a field reports
FieldView(got) ==
    IF IsSome(got)
    THEN LET f == Unwrap(got)
         IN  Some([idx |-> f.idx, is_null |-> is_null(f), value |-> value(f),
                   field_name |-> field_name(f)])
    ELSE None

(***************************************************************************)
(* The passes of one statement, one trait call per step.  The render pass  *)
(* walks the statement first (StatementCache renders it), the bind pass    *)
(* walks the same fragments afterwards (collect_binds).                    *)
(***************************************************************************)
\* the state after construction, but for the argument of a function
Constructed ==
    /\ sql = new_query_builder
    /\ frags = <<>>
    /\ binds = new_bind_collector
    /\ bpos = 0
    /\ params = <<>>
    /\ status = "render"
    /\ clause = [limit_clause |-> None, offset_clause |-> None]
    /\ boxed = None
    /\ rendered = [static |-> None, boxed |-> None]
    /\ statement_cache = {}
    /\ engine_log = <<>>
    /\ result = [op |-> "none", ret |-> "none", count |-> <<>>, err |-> <<>>]
    /\ last_call = [op |-> "none", source |-> Source(<<>>, FALSE),
                   env |-> Env(EngineTable(<<>>, 0), NoFault, 0)]
    /\ cursor = None
    /\ yielded = <<>>
    /\ last_field = NoField
    /\ transaction_state = 0

Init ==
    /\ Constructed
    /\ input = <<>>
    /\ output = None

\* the render pass hands fragment f to the query builder
Walk(f, max) ==
    /\ status = "render"
    /\ Len(frags) < max
    /\ sql' = render_frag(sql, f)
    /\ frags' = Append(frags, [f |-> f, from |-> Len(sql) + 1, to |-> Len(sql')])
    /\ UNCHANGED <<binds, bpos, params, status>>
    /\ UNCHANGED <<clauseVars, connVars, fnVars>>

RawTexts == {<<"a">>, <<"?">>}
BuildNames == {<<"a">>, <<"a", DQ>>}
Convs ==
    { Conv("No", IntValue(1)), Conv("No", TextValue(1)), Conv("No", Unset),
      Conv("Yes", Unset), Conv("Yes", IntValue(1)), Conv("Err", IntValue(1)) }

PushSql == \E t \in RawTexts : Walk(SqlFrag(t), MaxFrags)

PushIdentifier ==
    \E n \in BuildNames :
        /\ push_identifier_result(n) = "Ok"
        /\ Walk(IdentFrag(n), MaxFrags)

PushBindParam ==
    \E f \in {BindFrag(c) : c \in Convs} \cup {NullFrag(c) : c \in Categories} :
        Walk(f, MaxFrags)

\* AstPass::push_bind_param_value_only: the render pass writes nothing
ValueOnly == \E c \in {Conv("No", IntValue(1))} : Walk(ValueOnlyFrag(c), MaxFrags)

Finish ==
    /\ status = "render"
    /\ status' = "bind"
    /\ sql' = finish(sql)
    /\ UNCHANGED <<frags, binds, bpos, params>>
    /\ UNCHANGED <<clauseVars, connVars, fnVars>>

\* the bind pass walks the next fragment
BindStep(kinds) ==
    /\ status = "bind"
    /\ bpos < Len(frags)
    /\ frags[bpos + 1].f.k \in kinds
    /\ LET r == bind_frag(binds, frags[bpos + 1].f)
       IN  /\ binds' = r.binds
           /\ status' = IF r.res = "Ok" THEN "bind" ELSE "failed"
    /\ bpos' = bpos + 1
    /\ UNCHANGED <<sql, frags, params>>
    /\ UNCHANGED <<clauseVars, connVars, fnVars>>

BindSkip == BindStep({"sql", "ident"})
PushBoundValue == BindStep({"bind", "value_only"})
PushNullValue == BindStep({"null"})

IntoParams ==
    /\ status = "bind"
    /\ bpos = Len(frags)
    /\ params' = into_params(binds)
    /\ status' = "done"
    /\ UNCHANGED <<sql, frags, binds, bpos>>
    /\ UNCHANGED <<clauseVars, connVars, fnVars>>

NextBuild ==
    \/ PushSql
    \/ PushIdentifier
    \/ PushBindParam
    \/ ValueOnly
    \/ Finish
    \/ BindSkip
    \/ PushBoundValue
    \/ PushNullValue
    \/ IntoParams

SpecBuild == Init /\ [][NextBuild]_vars

\* identifiers only, every name up to MaxNameLen
IdentPush ==
    \E n \in Names :
        /\ push_identifier_result(n) = "Ok"
        /\ Walk(IdentFrag(n), MaxIdents)

SpecIdent == Init /\ [][IdentPush]_vars

(***************************************************************************)
(* LIMIT / OFFSET: the query DSL sets the parts of the static clause, the  *)
(* clause is walked, boxed by into_boxed, and the boxed clause is walked.  *)
(***************************************************************************)
Operands == 0..MaxLimit

\* LimitDsl::limit on a statement without a limit
DslLimit ==
    \E l \in Operands :
        /\ ~IsSome(boxed) /\ ~IsSome(rendered.static)
        /\ ~IsSome(clause.limit_clause)
        /\ clause' = LimitOffsetClause(Some(l), clause.offset_clause)
        /\ UNCHANGED <<boxed, rendered>>
        /\ UNCHANGED <<buildVars, connVars, fnVars>>

\* OffsetDsl::offset on a statement without an offset
DslOffset ==
    \E o \in Operands :
        /\ ~IsSome(boxed) /\ ~IsSome(rendered.static)
        /\ ~IsSome(clause.offset_clause)
        /\ clause' = LimitOffsetClause(clause.limit_clause, Some(o))
        /\ UNCHANGED <<boxed, rendered>>
        /\ UNCHANGED <<buildVars, connVars, fnVars>>

WalkStatic ==
    /\ ~IsSome(boxed) /\ ~IsSome(rendered.static)
    /\ rendered' = [rendered EXCEPT !.static = Some(Passes(walk_ast_static(clause)))]
    /\ UNCHANGED <<clause, boxed>>
    /\ UNCHANGED <<buildVars, connVars, fnVars>>

IntoBoxed ==
    /\ ~IsSome(boxed)
    /\ boxed' = Some(into_boxed(clause))
    /\ UNCHANGED <<clause, rendered>>
    /\ UNCHANGED <<buildVars, connVars, fnVars>>

WalkBoxed ==
    /\ IsSome(boxed) /\ ~IsSome(rendered.boxed)
    /\ rendered' = [rendered EXCEPT !.boxed = Some(Passes(walk_ast_boxed(Unwrap(boxed))))]
    /\ UNCHANGED <<clause, boxed>>
    /\ UNCHANGED <<buildVars, connVars, fnVars>>

NextClause ==
    \/ DslLimit
    \/ DslOffset
    \/ WalkStatic
    \/ IntoBoxed
    \/ WalkBoxed

SpecClause == Init /\ [][NextClause]_vars

(***************************************************************************)
(* The connection.  A cursor borrows the connection, so the next call on   *)
(* the connection comes after the cursor is dropped.                       *)
(***************************************************************************)
ExecuteReturningCount ==
    \E source \in Sources, env \in ExecuteEnvs :
        /\ ~IsSome(cursor)
        /\ LET o == execute_returning_count(statement_cache, source, env)
           IN  /\ statement_cache' = o.cache
               /\ engine_log' = o.log
               /\ result' = [op |-> "execute_returning_count", ret |-> o.ret,
                             count |-> o.res.val, err |-> o.res.err]
        /\ last_call' = [op |-> "execute_returning_count", source |-> source, env |-> env]
        /\ UNCHANGED <<cursor, yielded, last_field>>
        /\ UNCHANGED <<buildVars, clauseVars, fnVars, transaction_state>>

Load ==
    \E source \in Sources, env \in LoadEnvs :
        /\ ~IsSome(cursor)
        /\ LET o == load(statement_cache, source, env)
           IN  /\ statement_cache' = o.cache
               /\ engine_log' = o.log
               /\ result' = [op |-> "load", ret |-> o.ret,
                             count |-> <<>>, err |-> o.res.err]
               /\ cursor' = IF o.ret = "Ok" THEN Some(new_cursor(o.res.val[1])) ELSE None
        /\ last_call' = [op |-> "load", source |-> source, env |-> env]
        /\ yielded' = <<>>
        /\ last_field' = NoField
        /\ UNCHANGED <<buildVars, clauseVars, fnVars, transaction_state>>

\* a cursor that fetches from the engine while it is iterated
CursorNextLazy ==
    /\ IsSome(cursor)
    /\ Cardinality({i \in 1..Len(yielded) : ~IsSome(yielded[i])}) < MaxNone
    /\ LET n == cursor_next(Unwrap(cursor))
       IN  /\ cursor' = Some(n.rows)
           /\ yielded' = Append(yielded, n.item)
    /\ last_field' = NoField
    /\ engine_log' = Append(engine_log, [call |-> "next", ok |-> TRUE, n |-> Len(yielded) + 1])
    /\ UNCHANGED <<statement_cache, result, last_call>>
    /\ UNCHANGED <<buildVars, clauseVars, fnVars, transaction_state>>

CursorNext ==
    /\ IsSome(cursor)
    /\ Cardinality({i \in 1..Len(yielded) : ~IsSome(yielded[i])}) < MaxNone
    /\ LET n == cursor_next(Unwrap(cursor))
       IN  /\ cursor' = Some(n.rows)
           /\ yielded' = Append(yielded, n.item)
    /\ last_field' = NoField
    /\ UNCHANGED <<statement_cache, engine_log, result, last_call>>
    /\ UNCHANGED <<buildVars, clauseVars, fnVars, transaction_state>>

\* the row the caller looks at: the last one the cursor yielded
HasRow == yielded # <<>> /\ IsSome(yielded[Len(yielded)])
CurrentRow == Unwrap(yielded[Len(yielded)]).val[1]

RowGet ==
    /\ HasRow
    /\ \E idx \in 0..field_count(CurrentRow) :
           last_field' = [get |-> "index", at |-> idx, name |-> "",
                     found |-> FieldView(row_get(CurrentRow, idx_usize(CurrentRow, idx)))]
    /\ UNCHANGED <<statement_cache, engine_log, result, last_call, cursor, yielded>>
    /\ UNCHANGED <<buildVars, clauseVars, fnVars, transaction_state>>

RowGetByName ==
    /\ HasRow
    /\ \E name \in {"id", "name", "x", "zz"} :
           last_field' = [get |-> "name", at |-> 0, name |-> name,
                     found |-> FieldView(row_get(CurrentRow, idx_str(CurrentRow, name)))]
    /\ UNCHANGED <<statement_cache, engine_log, result, last_call, cursor, yielded>>
    /\ UNCHANGED <<buildVars, clauseVars, fnVars, transaction_state>>

DropCursor ==
    /\ IsSome(cursor)
    /\ cursor' = None
    /\ yielded' = <<>>
    /\ last_field' = NoField
    /\ UNCHANGED <<statement_cache, engine_log, result, last_call>>
    /\ UNCHANGED <<buildVars, clauseVars, fnVars, transaction_state>>

Next ==
    \/ ExecuteReturningCount
    \/ Load
    \/ CursorNext
    \/ RowGet
    \/ RowGetByName
    \/ DropCursor

Spec == Init /\ [][Next]_vars

\* A call whose statement the cache answers with a variant other than
\* Cached and CannotCache.
UnexpectedCacheState ==
    \E source \in Sources, env \in ExecuteEnvs,
       op \in {"load", "execute_returning_count"} :
        /\ ~IsSome(cursor)
        /\ LET later == [frags |-> source.frags, cacheable |-> source.cacheable,
                         variant |-> "Later"]
               o == IF op = "load" THEN load(statement_cache, later, env)
                    ELSE execute_returning_count(statement_cache, later, env)
           IN  /\ statement_cache' = o.cache
               /\ engine_log' = o.log
               /\ result' = [op |-> op, ret |-> o.ret,
                             count |-> IF op = "load" THEN <<>> ELSE o.res.val,
                             err |-> o.res.err]
               /\ cursor' = IF op = "load" /\ o.ret = "Ok"
                            THEN Some(new_cursor(o.res.val[1])) ELSE None
               /\ last_call' = [op |-> op, source |-> later, env |-> env]
        /\ yielded' = <<>>
        /\ last_field' = NoField
        /\ UNCHANGED <<buildVars, clauseVars, fnVars, transaction_state>>

\* load of a select over a table of up to MaxLimit rows, with or without a
\* filter, with a limit and offset clause of any of the four types, as it
\* is or boxed
LoadSelect ==
    \E n \in 0..MaxLimit, filter \in {None, Some(1)}, boxed_clause \in BOOLEAN,
       l \in {None} \cup {Some(k) : k \in 0..MaxLimit},
       o \in {None} \cup {Some(k) : k \in 0..MaxLimit} :
        /\ ~IsSome(cursor)
        /\ LET c == LimitOffsetClause(l, o)
               source ==
                   Source(<<SqlFrag(<<"a">>)>>
                          \o (IF IsSome(filter)
                              THEN <<SqlFrag(WhereKw),
                                     BindFrag(Conv("No", IntValue(filter[1])))>>
                              ELSE <<>>)
                          \o (IF boxed_clause THEN walk_ast_boxed(into_boxed(c))
                              ELSE walk_ast_static(c)),
                          ~boxed_clause)
               \* what the engine will answer: its SELECT on the text and the
               \* parameters of the statement
               env == Env(engine_select(to_sql(source.frags),
                                        into_params(collect_binds(source.frags).binds),
                                        EngineTable(<<"id", "name">>, n)),
                          NoFault, 0)
               r == load(statement_cache, source, env)
           IN  /\ statement_cache' = r.cache
               /\ engine_log' = r.log
               /\ result' = [op |-> "load", ret |-> r.ret,
                             count |-> <<>>, err |-> r.res.err]
               /\ cursor' = IF r.ret = "Ok" THEN Some(new_cursor(r.res.val[1])) ELSE None
               /\ last_call' = [op |-> "load", source |-> source, env |-> env,
                                select |-> [limit |-> l, offset |-> o, filter |-> filter,
                                            nrows |-> n]]
        /\ yielded' = <<>>
        /\ last_field' = NoField
        /\ UNCHANGED <<buildVars, clauseVars, fnVars, transaction_state>>

\* selects with limits and offsets, and the cursor of each
SpecSelect == Init /\ [][LoadSelect \/ CursorNext]_vars

\* batch_execute on a text of up to MaxStmts statements, any of which may fail
BatchExecute ==
    \E n \in 0..MaxStmts, fails \in SUBSET (1..MaxStmts) :
    \E stmts \in [1..n -> {<<"B", "E", "G", "I", "N">>, <<"d">>}] :
        /\ ~IsSome(cursor)
        /\ LET join[i \in 0..n] ==
                   IF i = 0 THEN <<>>
                   ELSE IF i = 1 THEN stmts[1]
                   ELSE join[i - 1] \o <<";">> \o stmts[i]
               query == join[n]
               env == [table |-> EngineTable(<<>>, 0), fault |-> NoFault, count |-> 0,
                       fails |-> fails]
               o == batch_execute(statement_cache, query, env)
           IN  /\ statement_cache' = o.cache
               /\ engine_log' = o.log
               /\ result' = [op |-> "batch_execute", ret |-> o.ret,
                             count |-> <<>>, err |-> o.res.err]
               /\ last_call' = [op |-> "batch_execute",
                                source |-> Source(<<SqlFrag(query)>>, FALSE),
                                env |-> env]
        /\ UNCHANGED <<cursor, yielded, last_field, transaction_state>>
        /\ UNCHANGED <<buildVars, clauseVars, fnVars>>

\* The transaction manager (AnsiTransactionManager) at work on the
\* connection: it sends BEGIN, COMMIT or ROLLBACK through batch_execute and
\* keeps the depth in transaction_state() when the engine accepted it.
Transaction ==
    \E op \in {"begin", "commit", "rollback"}, fails \in SUBSET {1} :
        /\ ~IsSome(cursor)
        /\ (op = "begin") <=> (transaction_state = 0)
        /\ LET query == CASE op = "begin" -> <<"B", "E", "G", "I", "N">>
                          [] op = "commit" -> <<"C", "O", "M", "M", "I", "T">>
                          [] op = "rollback" -> <<"R", "O", "L", "L", "B", "A", "C", "K">>
               env == [table |-> EngineTable(<<>>, 0), fault |-> NoFault, count |-> 0,
                       fails |-> fails]
               o == batch_execute(statement_cache, query, env)
           IN  /\ statement_cache' = o.cache
               /\ engine_log' = o.log
               /\ result' = [op |-> op, ret |-> o.ret, count |-> <<>>, err |-> o.res.err]
               /\ last_call' = [op |-> op, source |-> Source(<<SqlFrag(query)>>, FALSE),
                                env |-> env]
               /\ transaction_state' =
                      IF o.ret # "Ok" THEN transaction_state
                      ELSE IF op = "begin" THEN 1 ELSE 0
        /\ UNCHANGED <<cursor, yielded, last_field>>
        /\ UNCHANGED <<buildVars, clauseVars, fnVars>>

\* the connection under batches, statements and transactions
SpecBatch == Init /\ [][BatchExecute \/ ExecuteReturningCount \/ Transaction]_vars

\* the connection with a statement cache of further variants, among calls
\* that fill the cache
SpecVariant == Init /\ [][ExecuteReturningCount \/ UnexpectedCacheState]_vars

(***************************************************************************)
(* error.rs: map_diesel_error applied to a Result of the engine.           *)
(***************************************************************************)
\* the messages of the engine: up to MaxWords words, one after the other
Messages ==
    LET Tokens ==
            {<<"U", "N", "I", "Q", "U", "E">>,
             <<"D", "u", "p", "l", "i", "c", "a", "t", "e">>,
             <<"n", "o", "t", " ", "n", "u", "l", "l">>,
             <<"F", "o", "r", "e", "i", "g", "n", " ", "K", "e", "y">>,
             <<"c", "h", "e", "c", "k", " ", "c", "o", "n", "s", "t", "r", "a", "i", "n", "t">>,
             <<"t", "a", "b", "l", "e", " ">>,
             <<"c", "o", "l", "u", "m", "n", " ">>,
             <<"c", "o", "n", "s", "t", "r", "a", "i", "n", "t", " ">>,
             <<"t", "1">>,
             <<"s", ".", "t", " ">>,
             <<DQ>>,
             <<" ">>}
        concat[ws \in UNION {[1..n -> Tokens] : n \in 0..MaxWords}] ==
            IF Len(ws) = 0 THEN <<>>
            ELSE ws[1] \o concat[[i \in 1..(Len(ws) - 1) |-> ws[i + 1]]]
    IN  {concat[ws] : ws \in UNION {[1..n -> Tokens] : n \in 0..MaxWords}}

\* Result<T, duckdb::Error>: an Ok, and an Err of every variant the closure names
NativeResults ==
    LET texts == {<<"t", "1">>, <<"U", "N", "I", "Q", "U", "E">>,
                  <<"n", "o", "t", " ", "n", "u", "l", "l", " ", "c", "o", "l", "u", "m", "n", " ", "t", "1">>,
                  <<"F", "o", "r", "e", "i", "g", "n", " ", "K", "e", "y", " ", "t", "a", "b", "l", "e", " ", "t", "1">>,
                  <<"c", "h", "e", "c", "k", " ", "c", "o", "n", "s", "t", "r", "a", "i", "n", "t", " ", "t", "1">>}
        numbers == {0, 12}
        InvalidColumnIndex(index) ==
            NativeError("InvalidColumnIndex", 0, None, index, 0, <<>>, <<>>)
        InvalidColumnName(name) ==
            NativeError("InvalidColumnName", 0, None, 0, 0, name, <<>>)
        InvalidColumnType(index, name, type_name) ==
            NativeError("InvalidColumnType", 0, None, index, 0, name, type_name)
        StatementChangedRows(count) ==
            NativeError("StatementChangedRows", 0, None, count, 0, <<>>, <<>>)
        InvalidPath(path) ==
            NativeError("InvalidPath", 0, None, 0, 0, path, <<>>)
        ToSqlConversionFailure(err) ==
            NativeError("ToSqlConversionFailure", 0, None, 0, 0, <<>>, err)
        FromSqlConversionFailure(idx, name, err) ==
            NativeError("FromSqlConversionFailure", 0, None, idx, 0, name, err)
        Utf8Error(err) ==
            NativeError("Utf8Error", 0, None, 0, 0, <<>>, err)
        NulError(err) ==
            NativeError("NulError", 0, None, 0, 0, <<>>, err)
    IN  {Ok(n) : n \in numbers}
        \cup {Err(DuckDBFailure(1, Some(m))) : m \in Messages}
        \cup {Err(DuckDBFailure(n, None)) : n \in numbers}
        \cup {Err(InvalidColumnIndex(n)) : n \in numbers}
        \cup {Err(InvalidColumnName(t)) : t \in texts}
        \cup {Err(InvalidColumnType(n, t, t)) : n \in numbers, t \in texts}
        \cup {Err(InvalidParameterCount(n, m)) : n \in numbers, m \in numbers}
        \cup {Err(StatementChangedRows(n)) : n \in numbers}
        \cup {Err(InvalidPath(t)) : t \in texts}
        \cup {Err(ToSqlConversionFailure(t)) : t \in texts}
        \cup {Err(FromSqlConversionFailure(n, t, t)) : n \in numbers, t \in texts}
        \cup {Err(Utf8Error(t)) : t \in texts}
        \cup {Err(NulError(t)) : t \in texts}
        \cup {Err(OtherNativeError(v, t)) :
                  v \in {"QueryReturnedNoRows", "AppendError"}, t \in texts}

InitError ==
    /\ Constructed
    /\ input \in NativeResults
    /\ output = None

MapDieselError ==
    /\ output = None
    /\ output' = Some(map_err(input))
    /\ UNCHANGED input
    /\ UNCHANGED <<buildVars, clauseVars, connVars>>

SpecError == InitError /\ [][MapDieselError]_vars

(***************************************************************************)
(* types.rs.  A Rust value is given with the diesel SQL type (category) it *)
(* is bound or read as.  A ToSqlOutput is [form, value]: Borrowed or Owned *)
(* around a native value [t, v], or another variant of the enum.  Dates    *)
(* are <<year, month, day>>, times <<hour, minute, second>>, timestamps    *)
(* <<date, time>>; floats are the whole numbers among them.  The codecs    *)
(* forward to the duckdb crate (duckdb::ToSql, duckdb::types::FromSql),    *)
(* which is given here by what it does for the registered Rust types.      *)
(***************************************************************************)
\* duckdb_to_sql_diesel!(rust_type, diesel_type), one entry per registration
ToSqlImpl_narrow ==
    [Integer |-> "i32", Text |-> "str", Bool |-> "bool", TinyInt |-> "i8",
     SmallInt |-> "i16", BigInt |-> "i32", Float |-> "f32", Double |-> "f64",
     Binary |-> "u8_slice", Date |-> "NaiveDate", Time |-> "NaiveTime",
     Timestamp |-> "NaiveDateTime"]

ToSqlImpl ==
    [Integer |-> "i32", Text |-> "str", Bool |-> "bool", TinyInt |-> "i8",
     SmallInt |-> "i16", BigInt |-> "i64", Float |-> "f32", Double |-> "f64",
     Binary |-> "u8_slice", Date |-> "NaiveDate", Time |-> "NaiveTime",
     Timestamp |-> "NaiveDateTime"]

\* sql_diesel_to_duckdb!(rust_type, diesel_type), one entry per registration
FromSqlImpl ==
    [Text |-> "String", Integer |-> "i32", Bool |-> "bool", TinyInt |-> "i8",
     SmallInt |-> "i16", BigInt |-> "i64", Float |-> "f32", Double |-> "f64",
     Binary |-> "Vec_u8", Date |-> "NaiveDate", Time |-> "NaiveTime",
     Timestamp |-> "NaiveDateTime"]

\* duckdb::ToSql::to_sql(self) for a value of rust_type: integers, floats
\* and booleans are owned values of their own tag, text and bytes are
\* borrowed, chrono values are owned text in ISO form
duckdb_to_sql(rust_type, v) ==
    LET digits == <<"0", "1", "2", "3", "4", "5", "6", "7", "8", "9">>
        pad(n, width) ==
            [i \in 1..width |-> digits[((n \div (10 ^ (width - i))) % 10) + 1]]
        date(d) == pad(d[1], 4) \o <<"-">> \o pad(d[2], 2) \o <<"-">> \o pad(d[3], 2)
        time(t) == pad(t[1], 2) \o <<":">> \o pad(t[2], 2) \o <<":">> \o pad(t[3], 2)
        Owned(t, x) == [form |-> "Owned", value |-> [t |-> t, v |-> x]]
        Borrowed(t, x) == [form |-> "Borrowed", value |-> [t |-> t, v |-> x]]
    IN  CASE rust_type = "bool" -> Owned("Boolean", v)
          [] rust_type = "i8" -> Owned("TinyInt", v)
          [] rust_type = "i16" -> Owned("SmallInt", v)
          [] rust_type = "i32" -> Owned("Int", v)
          [] rust_type = "i64" -> Owned("BigInt", v)
          [] rust_type = "f32" -> Owned("Float", v)
          [] rust_type = "f64" -> Owned("Double", v)
          [] rust_type = "str" -> Borrowed("Text", v)
          [] rust_type = "u8_slice" -> Borrowed("Blob", v)
          [] rust_type = "NaiveDate" -> Owned("Text", date(v))
          [] rust_type = "NaiveTime" -> Owned("Text", time(v))
          [] rust_type = "NaiveDateTime" -> Owned("Text", date(v[1]) \o <<" ">> \o time(v[2]))

\* duckdb::types::FromSql::column_result(value_ref) for rust_type.  A value
\* of the type's own tag is taken as it is, chrono values are parsed from
\* text.  What the crate does with a number of another tag is not fixed
\* here: it converts it under a range check (lenient) or refuses it.
column_result(rust_type, value_ref, lenient) ==
    LET digits == <<"0", "1", "2", "3", "4", "5", "6", "7", "8", "9">>
        IsDigit(c) == \E k \in 1..10 : digits[k] = c
        DigitOf(c) == (CHOOSE k \in 1..10 : digits[k] = c) - 1
        num(s) ==
            LET acc[i \in 0..Len(s)] ==
                    IF i = 0 THEN 0 ELSE 10 * acc[i - 1] + DigitOf(s[i])
            IN  acc[Len(s)]
        Shaped(s, seps, len) ==
            /\ Len(s) = len
            /\ \A i \in 1..len :
                   IF i \in DOMAIN seps THEN s[i] = seps[i] ELSE IsDigit(s[i])
        leap(y) == (y % 4 = 0 /\ y % 100 # 0) \/ y % 400 = 0
        days(y, m) ==
            IF m = 2 THEN (IF leap(y) THEN 29 ELSE 28)
            ELSE IF m \in {4, 6, 9, 11} THEN 30 ELSE 31
        parse_date(s) ==
            IF ~Shaped(s, (5 :> "-") @@ (8 :> "-"), 10) THEN Err("Other")
            ELSE LET y == num(SubSeq(s, 1, 4))
                     m == num(SubSeq(s, 6, 7))
                     d == num(SubSeq(s, 9, 10))
                 IN  IF m \in 1..12 /\ d \in 1..days(y, m)
                     THEN Ok(<<y, m, d>>) ELSE Err("Other")
        parse_time(s) ==
            IF ~Shaped(s, (3 :> ":") @@ (6 :> ":"), 8) THEN Err("Other")
            ELSE LET h == num(SubSeq(s, 1, 2))
                     m == num(SubSeq(s, 4, 5))
                     sec == num(SubSeq(s, 7, 8))
                 IN  IF h \in 0..23 /\ m \in 0..59 /\ sec \in 0..59
                     THEN Ok(<<h, m, sec>>) ELSE Err("Other")
        parse_datetime(s) ==
            IF Len(s) # 19 \/ s[11] # " " THEN Err("Other")
            ELSE LET d == parse_date(SubSeq(s, 1, 10))
                     t == parse_time(SubSeq(s, 12, 19))
                 IN  IF d.ok /\ t.ok THEN Ok(<<d.val[1], t.val[1]>>)
                     ELSE Err("Other")
        own == [bool |-> "Boolean", i8 |-> "TinyInt", i16 |-> "SmallInt",
                i32 |-> "Int", i64 |-> "BigInt", f32 |-> "Float",
                f64 |-> "Double", String |-> "Text", Vec_u8 |-> "Blob",
                NaiveDate |-> "Text", NaiveTime |-> "Text",
                NaiveDateTime |-> "Text"]
        bits == [i8 |-> 7, i16 |-> 15, i32 |-> 31, i64 |-> 63]
        integers == {"TinyInt", "SmallInt", "Int", "BigInt"}
        fits(n, w) == w >= 31 \/ (n >= -(2^w) /\ n <= 2^w - 1)
        t == value_ref.t
        v == value_ref.v
    IN  IF t # own[rust_type]
        THEN IF lenient /\ rust_type \in DOMAIN bits /\ t \in integers
             THEN IF fits(v, bits[rust_type]) THEN Ok(v) ELSE Err("OutOfRange")
             ELSE IF lenient /\ rust_type \in {"f32", "f64"}
                             /\ t \in integers \cup {"Float", "Double"}
             THEN Ok(v)
             ELSE Err("InvalidType")
        ELSE CASE rust_type = "NaiveDate" -> parse_date(v)
               [] rust_type = "NaiveTime" -> parse_time(v)
               [] rust_type = "NaiveDateTime" -> parse_datetime(v)
               [] OTHER -> Ok(v)

\* ToSql<diesel_type, DuckDb>::to_sql for the Rust type registered under the
\* category: the value set in the Output buffer, and IsNull::No
type_to_sql(category, v) == Conv("No", duckdb_to_sql(ToSqlImpl[category], v))

\* FromSql<diesel_type, DuckDb>::from_sql: the Result, or <<>> where the
\* call does not return (unimplemented!)
type_from_sql(category, duckdb_value, lenient) ==
    IF duckdb_value.form \in {"Borrowed", "Owned"}
    THEN Some(column_result(FromSqlImpl[category], duckdb_value.value, lenient))
    ELSE None

\* a value of a category, the category it is read back as, and the crate's
\* way with numbers of another tag
TypeInputs ==
    LET dates == {<<2024, 2, 29>>, <<1999, 12, 31>>, <<1, 1, 1>>}
        times == {<<0, 0, 0>>, <<23, 59, 59>>, <<9, 5, 7>>}
        values ==
            [Bool |-> BOOLEAN,
             TinyInt |-> {-128, 0, 127},
             SmallInt |-> {-32768, 128, 32767},
             Integer |-> {-2147483647, 32768, 2147483647},
             BigInt |-> {-2147483647, 127, 2147483647},
             Float |-> {0, 3},
             Double |-> {0, 3},
             Text |-> {<<>>} \cup Names,
             Binary |-> UNION {[1..n -> {0, 255}] : n \in 0..MaxNameLen},
             Date |-> dates,
             Time |-> times,
             Timestamp |-> {<<d, t>> : d \in dates, t \in {<<0, 0, 0>>, <<23, 59, 59>>}}]
    IN  UNION {{[category |-> c, value |-> v, requested |-> r, lenient |-> l] :
                   v \in values[c], r \in DOMAIN FromSqlImpl, l \in BOOLEAN} :
               c \in DOMAIN ToSqlImpl}

InitTypes ==
    /\ Constructed
    /\ input \in TypeInputs
    /\ output = None

\* the value is bound: to_sql sets it in the Output buffer
ToSql ==
    /\ output = None
    /\ output' = Some([conv |-> type_to_sql(input.category, input.value),
                       raw |-> None, back |-> None])
    /\ UNCHANGED input
    /\ UNCHANGED <<buildVars, clauseVars, connVars>>

\* a raw value is read as the requested category: the value that was bound,
\* or a ToSqlOutput of another variant around it
FromSql ==
    /\ IsSome(output)
    /\ output[1].raw = None
    /\ \E form \in {output[1].conv.write.form, "ZeroBlob"} :
           LET duckdb_value == [form |-> form, value |-> output[1].conv.write.value]
           IN  output' = Some([conv |-> output[1].conv,
                               raw |-> Some(duckdb_value),
                               back |-> type_from_sql(input.requested, duckdb_value,
                                                      input.lenient)])
    /\ UNCHANGED input
    /\ UNCHANGED <<buildVars, clauseVars, connVars>>

SpecTypes == InitTypes /\ [][ToSql \/ FromSql]_vars

(***************************************************************************)
(* Helpers of the properties.                                              *)
(***************************************************************************)
CountOf(s, c) == Cardinality({i \in 1..Len(s) : s[i] = c})

\* The engine's lexer on a quoted identifier: i is the next position to read
\* after the opening quote; the answer is the position of the closing quote,
\* or 0 when the text ends before the identifier is closed.
RECURSIVE ScanQuoted(_, _)
ScanQuoted(s, i) ==
    IF i > Len(s) THEN 0
    ELSE IF s[i] # DQ THEN ScanQuoted(s, i + 1)
    ELSE IF i + 1 <= Len(s) /\ s[i + 1] = DQ THEN ScanQuoted(s, i + 2)
    ELSE i

\* collapse each doubled quote into one
RECURSIVE Collapse(_)
Collapse(s) ==
    IF s = <<>> THEN <<>>
    ELSE IF Head(s) = DQ /\ Len(s) >= 2 /\ s[2] = DQ
         THEN <<DQ>> \o Collapse(SubSeq(s, 3, Len(s)))
         ELSE <<Head(s)>> \o Collapse(Tail(s))

\* remove the outer quotes, then collapse
DecodeIdent(s) == Collapse(SubSeq(s, 2, Len(s) - 1))

\* the text a fragment's render call wrote
Written(w) == SubSeq(sql, w.from, w.to)

IsPlaceholderFrag(w) == w.f.k \in {"bind", "null"}
IsBindingFrag(w) == w.f.k \in {"bind", "null", "value_only"}

\* the fragments whose render call was push_bind_param, in walk order
PlaceholderFrags == SelectSeq(frags, IsPlaceholderFrag)

\* the fragments the bind pass has pushed a value for, in walk order
BoundFrags == SelectSeq(SubSeq(frags, 1, bpos), IsBindingFrag)

\* every fragment that binds a value also writes a placeholder
SameWalk == \A k \in 1..Len(frags) : frags[k].f.k # "value_only"

\* the value a fragment means to bind
Meant(f) ==
    IF f.k = "null" \/ f.conv.ret = "Yes" THEN NullValue
    ELSE IF f.conv.write = Unset THEN NullValue ELSE f.conv.write

(***************************************************************************)
(* C1: when the render pass and the bind pass walk the same fragments,     *)
(* push_bind_param has written exactly one '?' per entry of the bind       *)
(* collector, and the Nth '?' it wrote belongs to the fragment whose value *)
(* is the Nth entry handed out by into_params.                             *)
(***************************************************************************)
C1_PlaceholdersMatchBinds ==
    (status = "done" /\ SameWalk) =>
        /\ Len(PlaceholderFrags) = Len(binds)
        /\ Len(params) = Len(binds)
        /\ \A n \in 1..Len(PlaceholderFrags) :
               /\ Written(PlaceholderFrags[n]) = <<"?">>
               /\ n <= Len(params)
               /\ params[n] = Meant(PlaceholderFrags[n].f)

C1_Witness ==
    /\ status = "done"
    /\ SameWalk
    /\ Len(params) = 2
    /\ params[1] # params[2]
    /\ \E k \in 1..Len(frags) : frags[k].f = SqlFrag(<<"?">>)

(***************************************************************************)
(* C3: push_bound_value appends exactly Null when the conversion returned  *)
(* IsNull::Yes, whatever it wrote into the buffer, and exactly the value   *)
(* left in the buffer when it returned IsNull::No.                         *)
(***************************************************************************)
C3_NullOverwritesBuffer ==
    (status \in {"bind", "done"}) =>
        /\ Len(binds) = Len(BoundFrags)
        /\ \A n \in 1..Len(BoundFrags) :
               LET f == BoundFrags[n].f
               IN  f.k \in {"bind", "value_only"} =>
                       /\ f.conv.ret = "Yes" => binds[n] = NullValue
                       /\ f.conv.ret = "No" =>
                              binds[n] = (IF f.conv.write = Unset
                                          THEN NullValue ELSE f.conv.write)

C3_Witness ==
    /\ status = "done"
    /\ Len(binds) = 2
    /\ BoundFrags[1].f = BindFrag(Conv("Yes", IntValue(1)))
    /\ binds[1] = NullValue
    /\ BoundFrags[2].f = BindFrag(Conv("No", IntValue(1)))
    /\ binds[2] = IntValue(1)

(***************************************************************************)
(* C4: push_null_value succeeds and appends Null for every target          *)
(* category, and a field of a row that captured that entry reports         *)
(* is_null() = TRUE.                                                       *)
(***************************************************************************)
C4_PushNullIsNull ==
    /\ (bpos >= 1 /\ frags[bpos].f.k = "null") => status # "failed"
    /\ (status \in {"bind", "done"}) =>
           \A n \in 1..Len(BoundFrags) :
               BoundFrags[n].f.k = "null" =>
                   /\ n <= Len(binds)
                   /\ binds[n] = NullValue
                   /\ is_null(DuckDbField(DuckDbRow(binds, [i \in 1..Len(binds) |-> "c"]), n - 1))

C4_Witness ==
    /\ status = "done"
    /\ Len(binds) = 3
    /\ BoundFrags[1].f = NullFrag("Integer")
    /\ BoundFrags[2].f = BindFrag(Conv("No", IntValue(1)))
    /\ BoundFrags[3].f = NullFrag("Text")
    /\ ~is_null(DuckDbField(DuckDbRow(binds, <<"c", "c", "c">>), 1))

(***************************************************************************)
(* C5: for every name, push_identifier succeeds and appends a fragment     *)
(* that starts and ends with a double quote, holds an even number of       *)
(* double quotes, is closed exactly at its last character, and decodes     *)
(* back to the name.                                                       *)
(***************************************************************************)
C5_IdentifierQuoting ==
    /\ \A n \in Names : push_identifier_result(n) = "Ok"
    /\ \A k \in 1..Len(frags) :
           frags[k].f.k = "ident" =>
               LET out == Written(frags[k])
               IN  /\ Len(out) >= 2
                   /\ out[1] = DQ
                   /\ out[Len(out)] = DQ
                   /\ CountOf(out, DQ) % 2 = 0
                   /\ ScanQuoted(out, 2) = Len(out)
                   /\ DecodeIdent(out) = frags[k].f.text

C5_Witness ==
    /\ Len(frags) = 2
    /\ frags[1].f = IdentFrag(<<" ", "a">>)
    /\ frags[2].f = IdentFrag(<<DQ, DQ>>)
    /\ Written(frags[2]) = <<DQ, DQ, DQ, DQ, DQ, DQ>>

\* the text and the bound value of a limit or offset fragment on its own
LimitText == LimitKw \o <<"?">>
OffsetText == OffsetKw \o <<"?">>

(***************************************************************************)
(* C6: walking a static clause emits nothing for NoLimitNoOffset, the      *)
(* limit fragment alone for LimitOnly, the offset fragment alone for       *)
(* OffsetOnly, and the limit fragment followed by the offset fragment for  *)
(* LimitAndOffset.                                                         *)
(***************************************************************************)
C6_StaticClauseShapes ==
    IsSome(rendered.static) =>
        LET out == Unwrap(rendered.static)
            l == Unwrap(clause.limit_clause)
            o == Unwrap(clause.offset_clause)
        IN  /\ Shape(clause) = "NoLimitNoOffset" =>
                   out = [sql |-> <<>>, binds |-> <<>>]
            /\ Shape(clause) = "LimitOnly" =>
                   out = [sql |-> LimitText, binds |-> <<IntValue(l)>>]
            /\ Shape(clause) = "OffsetOnly" =>
                   out = [sql |-> OffsetText, binds |-> <<IntValue(o)>>]
            /\ Shape(clause) = "LimitAndOffset" =>
                   out = [sql |-> LimitText \o OffsetText,
                          binds |-> <<IntValue(l), IntValue(o)>>]

C6_Witness ==
    /\ IsSome(rendered.static)
    /\ clause = LimitOffsetClause(Some(2), Some(1))
    /\ Unwrap(rendered.static).binds = <<IntValue(2), IntValue(1)>>

(***************************************************************************)
(* C7: for each static shape, the clause made by into_boxed renders the    *)
(* same text and the same bound values in the same order as the static     *)
(* clause; the boxed clause emits the parts it holds, limit before offset. *)
(***************************************************************************)
C7_BoxedRendersAsStatic ==
    /\ (IsSome(rendered.static) /\ IsSome(rendered.boxed)) =>
           Unwrap(rendered.boxed) = Unwrap(rendered.static)
    /\ IsSome(rendered.boxed) =>
           LET b == Unwrap(boxed)
           IN  /\ IsSome(b.limit) = IsSome(clause.limit_clause)
               /\ IsSome(b.offset) = IsSome(clause.offset_clause)
               /\ Unwrap(rendered.boxed).sql =
                      (IF IsSome(b.limit) THEN LimitText ELSE <<>>)
                      \o (IF IsSome(b.offset) THEN OffsetText ELSE <<>>)
               /\ Unwrap(rendered.boxed).binds =
                      (IF IsSome(b.limit) THEN <<IntValue(Unwrap(b.limit))>> ELSE <<>>)
                      \o (IF IsSome(b.offset) THEN <<IntValue(Unwrap(b.offset))>> ELSE <<>>)

C7_Witness ==
    /\ IsSome(rendered.static)
    /\ IsSome(rendered.boxed)
    /\ Shape(clause) = "OffsetOnly"
    /\ Unwrap(rendered.boxed).binds = <<IntValue(2)>>

(***************************************************************************)
(* Helpers of the connection's properties.                                 *)
(***************************************************************************)
Called == last_call.op # "none"
CallSql == to_sql(last_call.source.frags)
CallBinds == collect_binds(last_call.source.frags)
CallParams == into_params(CallBinds.binds)
CallTable == last_call.env.table

\* the rows the caller has got or can still get from the cursor
YieldedRows ==
    LET some == SelectSeq(yielded, IsSome)
    IN  [i \in 1..Len(some) |-> some[i][1].val[1]]
Delivered == YieldedRows \o Unwrap(cursor)

FailedCalls == {i \in 1..Len(engine_log) : ~engine_log[i].ok}
CallsOf(name) == {i \in 1..Len(engine_log) : engine_log[i].call = name}

\* C2: when the statement's SQL has N placeholders and its bind pass pushed
\* M # N values, execute_returning_count and load return an error; the
\* adapter hands the statement to the engine without comparing the counts,
\* the engine's execute step receives exactly the M values, neither cut nor
\* padded, and that step is the one that fails.
C2_MismatchAlwaysErrors ==
    (/\ Called
     /\ CallBinds.res = "Ok"
     /\ placeholder_count(CallSql) # Len(CallParams))
    => /\ result.ret = "Err"
       /\ engine_log # <<>>
       /\ engine_log[1].call \in {"prepare", "prepare_cached"}
       /\ engine_log[1].ok =>
              /\ Len(engine_log) = 2
              /\ engine_log[2].call \in {"execute", "query"}
              /\ engine_log[2].n = Len(CallParams)
              /\ ~engine_log[2].ok
              /\ result.err[1].tag = "DatabaseError"

C2_Witness ==
    /\ last_call.op = "execute_returning_count"
    /\ last_call.source = Src.value_only
    /\ placeholder_count(CallSql) = 0
    /\ Len(CallParams) = 1
    /\ result.ret = "Err"
    /\ Len(engine_log) = 2
    /\ engine_log[1].ok

\* C8: whichever arm a call takes, MaybeCached::Cached with prepare_cached
\* or MaybeCached::CannotCache with a fresh prepare, what it returns (the
\* count, the rows, or the error) is what the other arm returns for the
\* same SQL text, the same values and the same engine.
C8_CacheDoesNotChangeOutcome ==
    (Called /\ CallBinds.res = "Ok") =>
        /\ last_call.op = "load" =>
               LET a == load_cached(CallSql, CallParams, last_call.env)
                   b == load_cannot_cache(CallSql, CallParams, last_call.env)
               IN  /\ a.res = b.res
                   /\ result.ret = (IF b.res.ok THEN "Ok" ELSE "Err")
                   /\ result.err = b.res.err
                   /\ IsSome(cursor) => Delivered = b.res.val[1]
        /\ last_call.op = "execute_returning_count" =>
               LET a == execute_cached(CallSql, CallParams, last_call.env)
                   b == execute_cannot_cache(CallSql, CallParams, last_call.env)
               IN  /\ a.res = b.res
                   /\ result.ret = (IF b.res.ok THEN "Ok" ELSE "Err")
                   /\ result.err = b.res.err
                   /\ result.count = b.res.val

C8_Witness ==
    /\ last_call.op = "load"
    /\ last_call.source = Src.bound
    /\ \E e \in statement_cache : e.key = CacheKey(Src.bound)
    /\ engine_log[1].call = "prepare_cached"
    /\ result.ret = "Ok"
    /\ IsSome(cursor)
    /\ Len(Delivered) = MaxRows

\* C9: load is all-or-nothing: when any engine call of it fails (prepare,
\* query, the fetch of a row, the read of a column's value or name) load
\* returns an error and the caller holds no cursor and no row; when the
\* caller holds a cursor, no call failed and the cursor holds every row of
\* the result set.
C9_LoadAllOrNothing ==
    last_call.op = "load" =>
        /\ FailedCalls # {} =>
               /\ result.ret = "Err"
               /\ result.err # <<>>
               /\ cursor = None
               /\ yielded = <<>>
        /\ IsSome(cursor) =>
               /\ result.ret = "Ok"
               /\ FailedCalls = {}
               /\ Len(Delivered) = CallTable.nrows
               /\ Cardinality(CallsOf("next")) = CallTable.nrows + 1

C9_Witness ==
    /\ last_call.op = "load"
    /\ last_call.env.fault.at = "get"
    /\ last_call.env.fault.row = 2
    /\ Cardinality(CallsOf("next")) = 2
    /\ FailedCalls # {}
    /\ result.ret = "Err"
    /\ cursor = None

\* C10: every engine call of a load is made before load returns: prepare,
\* query, one fetch per row and one more, one value read and one name read
\* per column of every row; nothing the caller does afterwards with the
\* cursor, its rows and their fields adds an engine call; every row holds a
\* name and a value for every column, and a field reports what was captured.
C10_EngineCallsBeforeLoadReturns ==
    (last_call.op = "load" /\ result.ret = "Ok") =>
        LET nrows == CallTable.nrows
            ncols == Len(CallTable.cols)
        IN  /\ Len(engine_log) = 2 + (nrows + 1) + 2 * nrows * ncols
            /\ Cardinality(CallsOf("get")) = nrows * ncols
            /\ Cardinality(CallsOf("column_name")) = nrows * ncols
            /\ IsSome(cursor) =>
                   \A r \in 1..Len(Delivered) :
                       /\ Len(Delivered[r].values) = ncols
                       /\ Len(Delivered[r].column_names) = ncols
            /\ IsSome(last_field.found) =>
                   LET f == Unwrap(last_field.found)
                       r == Len(YieldedRows)
                   IN  /\ f.value = Some(Cell(r, f.idx))
                       /\ f.is_null = (Cell(r, f.idx) = NullValue)
                       /\ f.field_name = Some(CallTable.cols[f.idx + 1])

C10_Witness ==
    /\ last_call.op = "load"
    /\ result.ret = "Ok"
    /\ Len(YieldedRows) = 2
    /\ cursor = Some(<<>>)
    /\ last_field.get = "name"
    /\ IsSome(last_field.found)
    /\ Unwrap(last_field.found).idx = 1

\* C11: Row.get returns a field or none, never a failure: by position i it
\* returns the field at i exactly when i < field_count; by name it returns
\* the field at the smallest index whose column name is that name, also
\* when several columns share it, and none when no column has the name.
C11_RowGet ==
    /\ last_field.get = "index" =>
           /\ IsSome(last_field.found) <=> last_field.at < field_count(CurrentRow)
           /\ IsSome(last_field.found) => Unwrap(last_field.found).idx = last_field.at
    /\ last_field.get = "name" =>
           LET named == {i \in 0..(field_count(CurrentRow) - 1) :
                             CurrentRow.column_names[i + 1] = last_field.name}
           IN  /\ IsSome(last_field.found) <=> named # {}
               /\ IsSome(last_field.found) =>
                      /\ Unwrap(last_field.found).idx \in named
                      /\ \A j \in named : Unwrap(last_field.found).idx <= j

C11_Witness ==
    /\ last_field.get = "name"
    /\ last_field.name = "x"
    /\ CurrentRow.column_names = <<"x", "x">>
    /\ IsSome(last_field.found)
    /\ Unwrap(last_field.found).idx = 0

\* C12: for every field a row gives, is_null() is true exactly when the
\* value captured for the column is the Null variant, that is exactly when
\* value() returns Null; value() returns the captured value and neither
\* call fails.
C12_IsNullIffNullValue ==
    IsSome(last_field.found) =>
        LET f == Unwrap(last_field.found)
        IN  /\ f.is_null \in BOOLEAN
            /\ IsSome(f.value)
            /\ Unwrap(f.value) = CurrentRow.values[f.idx + 1]
            /\ f.is_null <=> (Unwrap(f.value).t = "Null")

C12_Witness ==
    /\ last_field.get = "index"
    /\ IsSome(last_field.found)
    /\ Unwrap(last_field.found).is_null
    /\ Unwrap(last_field.found).value = Some(NullValue)
    /\ \E i \in 1..field_count(CurrentRow) : CurrentRow.values[i].t # "Null"

(***************************************************************************)
(* Helpers of the properties of error.rs.                                  *)
(***************************************************************************)
Mapped == IsSome(output) /\ ~input.ok
NativeIn == input.err[1]
DieselOut == Unwrap(output).err[1]
FailureWithMessage ==
    Mapped /\ NativeIn.variant = "DuckDBFailure" /\ IsSome(NativeIn.message)

\* word occurs in msg, letters compared without regard to case
Mentions(msg, word) ==
    \E i \in 1..Len(msg) :
        /\ i + Len(word) - 1 <= Len(msg)
        /\ \A j \in 1..Len(word) : to_lowercase_char(msg[i + j - 1]) = word[j]

\* C13: an engine failure that carries a message becomes a DatabaseError
\* whose kind is chosen by the first rule that matches, letters compared
\* without regard to case: "unique" or "duplicate" gives UniqueViolation,
\* "not null" NotNullViolation, "foreign key" ForeignKeyViolation, "check
\* constraint" CheckViolation, anything else Unknown; the structured error
\* keeps the message as it was.
C13_ClassifiedByMessage ==
    FailureWithMessage =>
        LET msg == Unwrap(NativeIn.message)
        IN  /\ DieselOut.tag = "DatabaseError"
            /\ DieselOut.message = msg
            /\ DieselOut.kind =
                   (IF Mentions(msg, Word.unique) \/ Mentions(msg, Word.duplicate)
                    THEN "UniqueViolation"
                    ELSE IF Mentions(msg, Word.not_null) THEN "NotNullViolation"
                    ELSE IF Mentions(msg, Word.foreign_key) THEN "ForeignKeyViolation"
                    ELSE IF Mentions(msg, Word.check_constraint) THEN "CheckViolation"
                    ELSE "Unknown")

C13_Witness ==
    /\ FailureWithMessage
    /\ Mentions(Unwrap(NativeIn.message), Word.not_null)
    /\ Mentions(Unwrap(NativeIn.message), Word.unique)
    /\ ~contains(Unwrap(NativeIn.message), Word.unique)
    /\ DieselOut.kind = "UniqueViolation"

\* the name the extraction is said to give: none without the marker, else
\* the characters after the marker's first occurrence up to the next
\* whitespace, quote or period, without surrounding quotes
ClaimedName(msg, marker) ==
    LET at == {i \in 0..Len(msg) : matches_at(msg, marker, i)}
    IN  IF at = {} THEN None
        ELSE LET pos == CHOOSE i \in at : \A j \in at : i <= j
                 after == SubSeq(msg, pos + Len(marker) + 1, Len(msg))
                 stops == {i \in 1..Len(after) : after[i] \in {" ", "\t", "\n", "\r", DQ, "."}}
                 end == IF stops = {} THEN Len(after) + 1
                        ELSE CHOOSE i \in stops : \A j \in stops : i <= j
             IN  Some(trim_matches(SubSeq(after, 1, end - 1), DQ))

\* C14: for each of the markers "table ", "column " and "constraint ": a
\* message without the marker gives no name and no error; a message with
\* it gives the token after the marker's first occurrence, up to the next
\* whitespace, quote or period, with surrounding quotes stripped.
C14_NamesExtracted ==
    FailureWithMessage =>
        LET msg == Unwrap(NativeIn.message)
        IN  /\ DieselOut.table_name = ClaimedName(msg, Word.table)
            /\ DieselOut.column_name = ClaimedName(msg, Word.column)
            /\ DieselOut.constraint_name = ClaimedName(msg, Word.constraint)

\* C15: map_diesel_error is total over the native error variants: an Ok
\* passes through unchanged; every Err becomes an Err that is exactly one
\* of SerializationError, DeserializationError and DatabaseError, never a
\* success; a to-SQL conversion failure becomes SerializationError, the
\* column-access failures and a from-SQL conversion failure become
\* DeserializationError.
C15_MapDieselErrorTotal ==
    IsSome(output) =>
        /\ input.ok => Unwrap(output) = input
        /\ ~input.ok =>
               /\ ~Unwrap(output).ok
               /\ Len(Unwrap(output).err) = 1
               /\ DieselOut.tag \in {"SerializationError", "DeserializationError",
                                     "DatabaseError"}
               /\ NativeIn.variant = "ToSqlConversionFailure" =>
                      DieselOut.tag = "SerializationError"
               /\ NativeIn.variant \in {"InvalidColumnIndex", "InvalidColumnName",
                                        "InvalidColumnType", "FromSqlConversionFailure"} =>
                      DieselOut.tag = "DeserializationError"
               /\ NativeIn.variant \in {"DuckDBFailure", "InvalidParameterCount",
                                        "QueryReturnedNoRows", "AppendError"} =>
                      DieselOut.tag = "DatabaseError"

C15_Witness ==
    /\ Mapped
    /\ NativeIn.variant = "QueryReturnedNoRows"
    /\ DieselOut.tag = "DatabaseError"
    /\ DieselOut.kind = "Unknown"


\* a value was bound and the value bound was read back as its own category
ReadBack ==
    /\ IsSome(output)
    /\ IsSome(output[1].raw)
    /\ output[1].raw[1] = output[1].conv.write
    /\ input.requested = input.category

UnexpectedVariant ==
    /\ last_call.op \in {"load", "execute_returning_count"}
    /\ "variant" \in DOMAIN last_call.source
    /\ last_call.source.variant \notin {"Cached", "CannotCache"}

C19_BatchExecute ==
    [][last_call'.op = "batch_execute" =>
          LET text == last_call'.source.frags[1].text
              n == IF text = <<>> THEN 0 ELSE CountOf(text, ";") + 1
              failing == last_call'.env.fails \cap (1..n)
              first == CHOOSE f \in failing : \A g \in failing : f <= g
          IN  /\ engine_log' = <<[call |-> "execute_batch", ok |-> failing = {},
                                  n |-> 0, sql |-> text]>>
              /\ result'.count = <<>>
              /\ cursor' = None
              /\ failing = {} => result'.ret = "Ok" /\ result'.err = <<>>
              /\ failing # {} =>
                     /\ result'.ret = "Err"
                     /\ result'.err =
                            <<map_diesel_error(
                                  DuckDBFailure(1, Some(EngineMsg.parser \o <<" ">>
                                                        \o itoa(first))))>>
              /\ statement_cache' = statement_cache
              /\ transaction_state' = transaction_state]_vars

C19_Witness ==
    /\ last_call.op = "batch_execute"
    /\ last_call.source.frags[1].text = <<"B", "E", "G", "I", "N", ";", "d">>
    /\ last_call.env.fails = {1, 2}
    /\ result.ret = "Err"
    /\ Mentions(result.err[1].message, <<"1">>)
    /\ statement_cache # {}
    /\ transaction_state = 1


\* the position, in the table, of a delivered row: the number its cells hold
PositionOf(row) ==
    CHOOSE p \in 1..(2 * MaxLimit + 2) : \E i \in 1..Len(row.values) : row.values[i] = IntValue(p)

\* C20: a load from a table of N rows delivers min(L, N) rows with limit(L)
\* alone, max(N - O, 0) rows with offset(O) alone and min(L, max(N - O, 0))
\* rows with both, namely the rows at the positions that follow O; a load
\* from an empty table, filtered or not, returns Ok with no rows.
C20_LimitOffsetRows ==
    (last_call.op = "load" /\ "select" \in DOMAIN last_call) =>
        LET sel == last_call.select
            N == sel.nrows
            rest == IF IsSome(sel.offset)
                    THEN (IF N > sel.offset[1] THEN N - sel.offset[1] ELSE 0)
                    ELSE N
            count == IF IsSome(sel.limit) THEN Min(sel.limit[1], rest) ELSE rest
            O == IF IsSome(sel.offset) THEN sel.offset[1] ELSE 0
        IN  /\ result.ret = "Ok"
            /\ IsSome(cursor)
            /\ N = 0 => Delivered = <<>>
            /\ ~IsSome(sel.filter) =>
                   /\ Len(Delivered) = count
                   /\ \A i \in 1..Len(Delivered) : PositionOf(Delivered[i]) = O + i

C20_Witness ==
    /\ last_call.op = "load"
    /\ "select" \in DOMAIN last_call
    /\ last_call.select = [limit |-> Some(1), offset |-> Some(1), filter |-> None,
                           nrows |-> 3]
    /\ Len(Delivered) = 1
    /\ PositionOf(Delivered[1]) = 2
    /\ Len(yielded) = 1


\* C21: every row a cursor delivers has as many column names as values,
\* both as many as the result has columns, and field_count is that number;
\* the name at each index is the name of the column whose value is at that
\* index.
C21_NamesMatchValues ==
    (last_call.op = "load" /\ IsSome(cursor)) =>
        \A r \in 1..Len(Delivered) :
            LET row == Delivered[r]
                ncols == engine_column_count(CallTable)
            IN  /\ Len(row.values) = ncols
                /\ Len(row.column_names) = ncols
                /\ field_count(row) = ncols
                /\ \A i \in 1..ncols :
                       /\ row.values[i] = Cell(r, i - 1)
                       /\ row.column_names[i] = CallTable.cols[i]

C21_Witness ==
    /\ last_call.op = "load"
    /\ IsSome(cursor)
    /\ Len(YieldedRows) = 2
    /\ YieldedRows[2].column_names = <<"id", "name">>
    /\ YieldedRows[2].values = <<IntValue(2), NullValue>>
    /\ field_count(YieldedRows[2]) = 2


\* C22: execute_returning_count and load ask the statement cache first,
\* collect the binds next, then have the engine prepare and then execute the
\* statement; when collecting the binds fails the call returns that error
\* and the engine is asked for nothing, while the entry the lookup put into
\* the statement cache is still there.
C22_StepsInOrder ==
    last_call.op \in {"load", "execute_returning_count"} =>
        LET source == last_call.source
            kept == \E e \in statement_cache :
                        e.key = CacheKey(source) /\ e.sql = CallSql
        IN  /\ source.cacheable => kept
            /\ CallBinds.res # "Ok" =>
                   /\ result.ret = "Err"
                   /\ result.err = <<SerializationError(<<>>)>>
                   /\ engine_log = <<>>
            /\ CallBinds.res = "Ok" =>
                   /\ engine_log # <<>>
                   /\ engine_log[1].call =
                          IF source.cacheable THEN "prepare_cached" ELSE "prepare"
                   /\ \A i \in 2..Len(engine_log) :
                          engine_log[i].call \notin {"prepare", "prepare_cached"}
                   /\ engine_log[1].ok <=> Len(engine_log) >= 2
                   /\ Len(engine_log) >= 2 =>
                          /\ engine_log[2].call =
                                 IF last_call.op = "load" THEN "query" ELSE "execute"
                          /\ engine_log[2].n = Len(CallParams)
                          /\ \A i \in 3..Len(engine_log) :
                                 engine_log[i].call \notin {"query", "execute"}

C22_Witness ==
    /\ last_call.op = "execute_returning_count"
    /\ last_call.source = Src.bind_fails
    /\ result.err = <<SerializationError(<<>>)>>
    /\ engine_log = <<>>
    /\ statement_cache = {[key |-> CacheKey(Src.bind_fails), sql |-> to_sql(Src.bind_fails.frags)]}


\* C23: the bind collector is append-only.  Every push_bound_value or
\* push_null_value that succeeds appends exactly one entry at the end and
\* leaves the earlier entries as they were; a push_bound_value whose
\* conversion fails returns SerializationError and appends nothing;
\* into_params yields exactly the entries of the successful pushes, in the
\* order of the calls.
C23_AppendOnly ==
    [][/\ (status = "bind" /\ bpos' = bpos + 1 /\ IsBindingFrag(frags[bpos + 1])) =>
              LET f == frags[bpos + 1].f
                  failing == f.k \in {"bind", "value_only"} /\ f.conv.ret = "Err"
              IN  /\ failing <=> status' = "failed"
                  /\ failing => binds' = binds
                  /\ ~failing =>
                         /\ Len(binds') = Len(binds) + 1
                         /\ SubSeq(binds', 1, Len(binds)) = binds
                         /\ binds'[Len(binds')] = Meant(f)
       /\ (status = "bind" /\ status' = "done") =>
              /\ Len(params') = Len(BoundFrags)
              /\ \A n \in 1..Len(BoundFrags) : params'[n] = Meant(BoundFrags[n].f)
              /\ binds' = binds
       /\ (status = "bind" /\ bpos' = bpos + 1 /\ ~IsBindingFrag(frags[bpos + 1])) =>
              binds' = binds
       /\ status # "bind" => binds' = binds]_vars

C23_Witness ==
    /\ status = "done"
    /\ Len(frags) = 3
    /\ frags[1].f = BindFrag(Conv("No", IntValue(1)))
    /\ frags[2].f = NullFrag("Integer")
    /\ frags[3].f = BindFrag(Conv("No", TextValue(1)))
    /\ params = <<IntValue(1), NullValue, TextValue(1)>>


\* C24: the cursor a load returned yields exactly the rows the engine
\* enumerated, in the engine's order and each of them once, every item
\* being Ok; once all rows have been yielded, every further next() returns
\* none.
C24_CursorYieldsEngineRows ==
    (last_call.op = "load" /\ IsSome(cursor)) =>
        LET nrows == CallTable.nrows
            ncols == engine_column_count(CallTable)
        IN  /\ Len(Unwrap(cursor)) = nrows - Min(Len(yielded), nrows)
            /\ \A k \in 1..Len(yielded) :
                   /\ IsSome(yielded[k]) <=> k <= nrows
                   /\ k <= nrows =>
                          /\ yielded[k][1].ok
                          /\ yielded[k][1].err = <<>>
                          /\ yielded[k][1].val[1].values =
                                 [i \in 1..ncols |-> Cell(k, i - 1)]

C24_Witness ==
    /\ last_call.op = "load"
    /\ CallTable.nrows = 2
    /\ cursor = Some(<<>>)
    /\ Len(yielded) = 4
    /\ yielded[1][1].val[1].values = <<NullValue, IntValue(1)>>
    /\ yielded[2][1].val[1].values = <<IntValue(2), NullValue>>
    /\ yielded[3] = None
    /\ yielded[4] = None


\* C25: only the DuckDBFailure variant is classified by the content of its
\* message: every other variant, whatever its text contains ("unique", "not
\* null", "foreign key", "check constraint", a table, column or constraint
\* marker), never yields a constraint-violation kind, and its table, column
\* and constraint names are absent; the statement position is absent for
\* every translated error.
C25_OnlyFailureClassified ==
    Mapped =>
        /\ DieselOut.statement_position = None
        /\ NativeIn.variant # "DuckDBFailure" =>
               /\ DieselOut.kind \notin {"UniqueViolation", "NotNullViolation",
                                         "ForeignKeyViolation", "CheckViolation"}
               /\ DieselOut.tag = "DatabaseError" => DieselOut.kind = "Unknown"
               /\ DieselOut.table_name = None
               /\ DieselOut.column_name = None
               /\ DieselOut.constraint_name = None

C25_Witness ==
    /\ Mapped
    /\ NativeIn.variant = "AppendError"
    /\ Mentions(NativeIn.detail, Word.foreign_key)
    /\ contains(NativeIn.detail, Word.table)
    /\ DieselOut.message = NativeIn.detail
    /\ DieselOut.kind = "Unknown"
    /\ DieselOut.table_name = None

====
